---- MODULE Spec2Model ----
(***************************************************************************)
(* Orchestration engine of src/components/ImageCompressor.vue: the manual  *)
(* run (startProcess), the batch build (runAllProfiles), the review gate   *)
(* (executeBatch / cancelReview) and the per-task worker pool              *)
(* (processTask / processFile).                                            *)
(*                                                                         *)
(* JavaScript runs one macrotask at a time.  Every action below is one     *)
(* macrotask: a user event or the completion of one IPC call (exists,      *)
(* mkdir, readDir, join, Command.execute), followed by all the code that   *)
(* runs before the next IPC call is awaited (promise continuations are     *)
(* microtasks and run inside the same macrotask).                          *)
(***************************************************************************)
EXTENDS Bags, FiniteSets, Integers, Sequences, TLC

(***************************************************************************)
(* Bounds of the model                                                     *)
(***************************************************************************)
MaxFiles == 5        \* most eligible files in the manual input folder
MaxRuns == 2         \* most runs (startProcess / executeBatch) in a behaviour
MaxArrays == 3       \* most array objects ever assigned to batchQueue.value
MaxBuilds == 1       \* most runAllProfiles activations in flight at once
MaxOverlap == 2      \* the same, where the clicks on run-all overlap
MaxPicks == 1        \* most selectFolder activations in flight at once
MaxPathLen == 4      \* longest path handed to resolvePath as candidate
MaxLoads == 3        \* most configuration files and profiles chosen in a session
MaxVideoAdds == 3    \* most file objects ever added to the video list
MaxVideoRuns == 2    \* most runs of the video converter
MaxLines == 3        \* most lines the cropping collaborator writes

(***************************************************************************)
(* Program constants                                                       *)
(***************************************************************************)
CONCURRENCY_LIMIT == 4

validExtensions == {"png", "jpg", "jpeg", "bmp", "webp"}

(***************************************************************************)
(* Paths are sequences of characters.                                      *)
(***************************************************************************)
Letters == {"a", "b", "c", "g", "i", "m", "o", "r", "s", "x", "C"}

InDir == <<"/", "i">>          \* existing folder holding the images
OutDir == <<"/", "o">>         \* output folder, created on demand
MissingDir == <<"/", "m">>     \* a folder that does not exist
BlockedOut == <<"/", "x", "/", "o">>   \* a folder that cannot be created
CfgDir == <<"/", "c">>
CfgFile == <<"/", "c", "/", "s">>      \* the loaded settings file
RelIn == <<"i">>                        \* a relative folder of a profile
RelOut == <<"o">>
CfgIn == <<"/", "c", "/", "i">>         \* RelIn resolved against CfgDir

GitOut == <<"/", "g">>                  \* an existing output folder under git
Processed == <<"_", "p">>               \* the suffix "_processed" of line 230

Uncreatable == {BlockedOut}
Repos == {CfgIn, GitOut}        \* folders inside a git working tree

\* String.prototype.lastIndexOf for a one-character needle (0 = not found)
LastIndexOf(path, ch) ==
    LET hits == {k \in 1..Len(path) : path[k] = ch}
    IN IF hits = {} THEN 0 ELSE CHOOSE k \in hits : \A h \in hits : h <= k

getDirname(path) ==
    LET sep == IF \E k \in 1..Len(path) : path[k] = "\\" THEN "\\" ELSE "/"
        at == LastIndexOf(path, sep)
    IN IF at = 0 THEN <<>> ELSE SubSeq(path, 1, at - 1)

\* @tauri-apps/api/path join: every segment gets a trailing separator, the
\* segments are concatenated and the result is normalised (repeated and
\* trailing separators dropped; an empty result is ".")
WithSep(p) == IF p # <<>> /\ p[Len(p)] \in {"/", "\\"} THEN p ELSE p \o <<"/">>

RECURSIVE Squeeze(_)
Squeeze(p) ==
    IF Len(p) <= 1 THEN p
    ELSE IF p[1] = "/" /\ p[2] = "/" THEN Squeeze(Tail(p))
    ELSE <<p[1]>> \o Squeeze(Tail(p))

Normalize(p) ==
    LET q == Squeeze(p)
        r == IF Len(q) > 1 /\ q[Len(q)] = "/" THEN SubSeq(q, 1, Len(q) - 1) ELSE q
    IN IF r = <<>> THEN <<".">> ELSE r

join(base, relative) == Normalize(WithSep(base) \o WithSep(relative))

resolvePath(base, relative) ==
    IF \/ (Len(relative) >= 3 /\ relative[1] \in Letters
              /\ relative[2] = ":" /\ relative[3] = "\\")
       \/ (Len(relative) >= 1 /\ relative[1] = "/")
    THEN relative
    ELSE join(base, relative)

\* mkdir(..., {recursive: true}) creates the folder and its missing ancestors
Ancestors(path) ==
    {SubSeq(path, 1, k - 1) : k \in {h \in 2..Len(path) : path[h] = "/"}}

checkGitRepo(path) == path \in Repos

(***************************************************************************)
(* Directory entries.  ffmpeg is what the transcoder does with the file:   *)
(* "ok" (exit 0), "fail" (non-zero exit) or "throw" (spawn failure).       *)
(***************************************************************************)
ToLower(ext) == IF ext = "PNG" THEN "png" ELSE IF ext = "JPG" THEN "jpg" ELSE ext

Entry(stem, ext, isDir, ff) ==
    [stem |-> stem, ext |-> ext, isDirectory |-> isDir, ffmpeg |-> ff]

IsEligible(e) == ~e.isDirectory /\ ToLower(e.ext) \in validExtensions

RECURSIVE FilterSeq(_, _)
FilterSeq(seq, keep) ==
    IF seq = <<>> THEN <<>>
    ELSE IF Head(seq) \in keep THEN <<Head(seq)>> \o FilterSeq(Tail(seq), keep)
    ELSE FilterSeq(Tail(seq), keep)

filesToProcess(entries) ==
    FilterSeq(entries, {e \in {entries[k] : k \in 1..Len(entries)} : IsEligible(e)})

Stems == <<"a", "b", "c", "i", "m", "o">>

\* a folder holding n images; the first one has transcoder behaviour ff
ImageDir(n, ff) ==
    [k \in 1..n |-> Entry(Stems[k], IF k = 2 THEN "PNG" ELSE "png", FALSE,
                          IF k = 1 THEN ff ELSE "ok")]

(***************************************************************************)
(* State                                                                   *)
(***************************************************************************)
VARIABLES
    config,             \* reactive manual settings
    profiles,           \* parsed configuration document, in document order
    configFilePath,
    isProcessing,
    logs,               \* bag of log events
    progress,
    isGitInput, isGitOutput,
    enableGitInput, enableGitOutput,
    reviewMode,
    batchQueue,         \* id of the array object held by batchQueue.value
    activeReviewIndex,  \* 0-based, as in the source
    heap,               \* array id -> contents of that array object
    nextArray,          \* number of array objects allocated so far
    run,                \* activation of startProcess / executeBatch
    runNo,              \* number of runs started so far
    jobs,               \* activations of processFile, in call order
    builds,             \* activations of runAllProfiles, in click order
    dirs,               \* folders that exist on disk
    files,              \* folder -> its entries (readDir)
    execCount,          \* array id -> number of executeBatch runs over it
    picks,              \* activations of selectFolder, in click order
    activeProfile,      \* name chosen in the profile selector, "" at first
    profilesKind,       \* JavaScript value held by profiles.value: "object",
                        \* "array" or "null"; profiles holds its entries
    loads,              \* activations of loadConfigFile, in call order
    applies,            \* activations of applyProfile, in call order
    loadNo,             \* configuration files and profiles chosen so far
    video,              \* the video converter component (src/unnamed/part_000)
    cropper             \* the smart cropper component (SmartCropper.vue)

vars == <<config, profiles, configFilePath, isProcessing, logs, progress,
          isGitInput, isGitOutput, enableGitInput, enableGitOutput,
          reviewMode, batchQueue, activeReviewIndex, heap, nextArray,
          run, runNo, jobs, builds, dirs, files, execCount, picks,
          activeProfile, profilesKind, loads, applies, loadNo,
          video, cropper>>

uiVars == <<config, profiles, configFilePath, isGitInput, isGitOutput,
            enableGitInput, enableGitOutput, picks,
            activeProfile, profilesKind, loads, applies, loadNo,
          video, cropper>>

(***************************************************************************)
(* Log events and the activation records                                   *)
(***************************************************************************)
Log(type, msg, task, file) == [type |-> type, msg |-> msg, task |-> task, file |-> file]

RemoveAt(seq, k) == SubSeq(seq, 1, k - 1) \o SubSeq(seq, k + 1, Len(seq))

\* the fields a macrotask of a run can change
Machine == [run |-> run, jobs |-> jobs, logs |-> logs, progress |-> progress,
            isProcessing |-> isProcessing, reviewMode |-> reviewMode]

addLog(s, e) == [s EXCEPT !.logs = @ (+) SetToBag({e})]

NoRun ==
    [kind |-> "none", pc |-> "none", no |-> 0, arr |-> 0, idx |-> 0,
     name |-> "", git |-> [enableInput |-> FALSE, enableOutput |-> FALSE],
     runGit |-> [input |-> FALSE, output |-> FALSE],
     arg |-> <<>>, files |-> <<>>, i1 |-> 0, i2 |-> 0, role |-> "",
     attempted |-> {}, threw |-> {}, confirmLen |-> 0]

\* taskConfig of processTask: the live reactive config for a manual run,
\* the task's own copy for a batch run
TaskConfigOf(r) == IF r.kind = "manual" THEN config ELSE heap[r.arr][r.idx].config

OfTask(r, j) == j.run = r.no /\ j.task = r.idx

\* processFile up to its first await
NewJob(r, loop, k) ==
    [run |-> r.no, task |-> r.idx, name |-> r.name, loop |-> loop, file |-> k,
     entry |-> r.files[k], stage |-> "join"]

JobsOf(js, r, loop) == {k \in 1..Len(js) : OfTask(r, js[k]) /\ js[k].loop = loop}

\* positions at which a run waits for an IPC call or a pending promise
Blocked == {"none", "exists", "mkdir", "readDir", "race1", "race2", "all",
            "probe", "add", "commit", "push", "ended"}

(***************************************************************************)
(* The synchronous code of a run between two awaits, one step per pc.      *)
(***************************************************************************)
\* processTask, lines 289-296
StepTaskStart(s) ==
    LET r == s.run
        tc == TaskConfigOf(r)
        \* finished activations of earlier tasks are dropped
        s1 == addLog([s EXCEPT !.run.attempted = @ \cup {r.idx},
                               !.jobs = SelectSeq(@, LAMBDA j : j.stage # "done")],
                     Log("info", "start", r.name, ""))
    IN IF tc.inputFolder = <<>> \/ tc.outputFolder = <<>>
       THEN [addLog(s1, Log("error", "nopath", r.name, "")) EXCEPT !.run.pc = "task_end"]
       ELSE [s1 EXCEPT !.run.pc = "exists", !.run.arg = tc.outputFolder]

\* first pool loop, lines 358-371: activePromises is never shrunk, so the
\* race is pending only until the first of its promises has settled
StepLoop1(s) ==
    LET r == s.run
    IN IF r.i1 < Len(r.files)
       THEN LET js == Append(s.jobs, NewJob(r, 1, r.i1 + 1))
                settled == \E k \in JobsOf(js, r, 1) : js[k].stage = "done"
            IN [s EXCEPT !.jobs = js, !.run.i1 = r.i1 + 1,
                         !.run.pc = IF r.i1 + 1 >= CONCURRENCY_LIMIT /\ ~settled
                                    THEN "race1" ELSE "loop1"]
       ELSE [s EXCEPT !.run.pc = "loop2"]

\* second pool loop, lines 374-386: a finished promise removes itself from
\* executing
StepLoop2(s) ==
    LET r == s.run
    IN IF r.i2 < Len(r.files)
       THEN LET js == Append(s.jobs, NewJob(r, 2, r.i2 + 1))
                executing == {k \in JobsOf(js, r, 2) : js[k].stage # "done"}
            IN [s EXCEPT !.jobs = js, !.run.i2 = r.i2 + 1,
                         !.run.pc = IF Cardinality(executing) >= CONCURRENCY_LIMIT
                                    THEN "race2" ELSE "loop2"]
       ELSE [s EXCEPT !.run.pc = "all"]

\* lines 389-390
StepGit(s) ==
    LET r == s.run
    IN [s EXCEPT !.run.runGit =
                    IF r.kind = "batch"
                    THEN [input |-> r.git.enableInput, output |-> r.git.enableOutput]
                    ELSE [input |-> enableGitInput, output |-> enableGitOutput],
                 !.run.pc = "git_in"]

\* an input sync that does not look at the toggle
StepGitIn_Ungated(s) ==
    [s EXCEPT !.run.pc = "probe", !.run.role = "input",
              !.run.arg = TaskConfigOf(s.run).inputFolder]

\* lines 392 and 395: the probe is issued only when the toggle is on
StepGitIn(s) ==
    LET r == s.run
    IN IF r.runGit.input
       THEN [s EXCEPT !.run.pc = "probe", !.run.role = "input",
                      !.run.arg = TaskConfigOf(r).inputFolder]
       ELSE [s EXCEPT !.run.pc = "git_out"]

StepGitOut(s) ==
    LET r == s.run
    IN IF r.runGit.output
       THEN [s EXCEPT !.run.pc = "probe", !.run.role = "output",
                      !.run.arg = TaskConfigOf(r).outputFolder]
       ELSE [s EXCEPT !.run.pc = "task_end"]

\* processTask has returned: lines 407-412 (manual), the for-of of 476 (batch)
StepTaskEnd(s) ==
    IF s.run.kind = "manual"
    THEN [addLog(s, Log("success", "manualdone", "", ""))
            EXCEPT !.isProcessing = FALSE, !.run.pc = "ended"]
    ELSE [s EXCEPT !.run.pc = "next_task"]

\* a batch whose counters start again with every task
StepNextTask_ResetsProgress(s) ==
    LET r == s.run
        queue == heap[r.arr]
    IN IF r.idx < Len(queue)
       THEN LET task == queue[r.idx + 1]
            IN [s EXCEPT !.run.idx = r.idx + 1, !.run.name = task.name,
                         !.run.git = [enableInput |-> task.enableGitInput,
                                      enableOutput |-> task.enableGitOutput],
                         !.progress = [current |-> 0, total |-> 0],
                         !.run.pc = "task_start"]
       ELSE [addLog(s, Log("success", "batchdone", "", ""))
               EXCEPT !.reviewMode = FALSE, !.isProcessing = FALSE,
                      !.run.pc = "ended"]

\* executeBatch, lines 476-483 and 487: the iterator reads the array live
StepNextTask(s) ==
    LET r == s.run
        queue == heap[r.arr]
    IN IF r.idx < Len(queue)
       THEN LET task == queue[r.idx + 1]
            IN [s EXCEPT !.run.idx = r.idx + 1, !.run.name = task.name,
                         !.run.git = [enableInput |-> task.enableGitInput,
                                      enableOutput |-> task.enableGitOutput],
                         !.run.pc = "task_start"]
       ELSE [addLog(s, Log("success", "batchdone", "", ""))
               EXCEPT !.reviewMode = FALSE, !.isProcessing = FALSE,
                      !.run.pc = "ended"]

\* an exception leaves processTask: lines 408-412 (manual), 484-488 (batch)
StepThrow(s) ==
    [addLog(s, Log("error", IF s.run.kind = "manual" THEN "syserr" ELSE "batcherr", "", ""))
       EXCEPT !.isProcessing = FALSE, !.run.pc = "ended",
              !.run.threw = @ \cup {s.run.idx}]

Step(s) ==
    CASE s.run.pc = "task_start" -> StepTaskStart(s)
      [] s.run.pc = "loop1" -> StepLoop1(s)
      [] s.run.pc = "loop2" -> StepLoop2(s)
      [] s.run.pc = "git" -> StepGit(s)
      [] s.run.pc = "git_in" -> StepGitIn(s)
      [] s.run.pc = "git_out" -> StepGitOut(s)
      [] s.run.pc = "task_end" -> StepTaskEnd(s)
      [] s.run.pc = "next_task" -> StepNextTask(s)
      [] s.run.pc = "throw" -> StepThrow(s)

\* run until the next await that really suspends
RECURSIVE Advance(_)
Advance(s) == IF s.run.pc \in Blocked THEN s ELSE Advance(Step(s))

Commit(s) ==
    /\ run' = s.run
    /\ jobs' = s.jobs
    /\ logs' = s.logs
    /\ progress' = s.progress
    /\ isProcessing' = s.isProcessing
    /\ reviewMode' = s.reviewMode

\* executeGitOps is over for the current folder
AfterGit(s) == [s EXCEPT !.run.pc = IF s.run.role = "input" THEN "git_out" ELSE "task_end"]


\* a start button that is not disabled while a run is executing
startProcess_AlwaysEnabled ==
    /\ ~reviewMode
    /\ runNo < MaxRuns
    /\ runNo' = runNo + 1
    /\ Commit(Advance([Machine EXCEPT
            !.isProcessing = TRUE,
            !.logs = EmptyBag,
            !.progress = [current |-> 0, total |-> 0],
            !.run = [NoRun EXCEPT !.kind = "manual", !.pc = "task_start",
                                  !.no = runNo + 1, !.name = "Manual"]]))
    /\ UNCHANGED <<uiVars, batchQueue, activeReviewIndex, heap, nextArray,
                   builds, dirs, files, execCount>>

(***************************************************************************)
(* User events that start a run                                            *)
(***************************************************************************)
\* startProcess, lines 400-413; the button is rendered in standard mode
\* only and is disabled while isProcessing (template 772-774)
startProcess ==
    /\ ~isProcessing
    /\ ~reviewMode
    /\ runNo < MaxRuns
    /\ runNo' = runNo + 1
    /\ Commit(Advance([Machine EXCEPT
            !.isProcessing = TRUE,
            !.logs = EmptyBag,
            !.progress = [current |-> 0, total |-> 0],
            !.run = [NoRun EXCEPT !.kind = "manual", !.pc = "task_start",
                                  !.no = runNo + 1, !.name = "Manual"]]))
    /\ UNCHANGED <<uiVars, batchQueue, activeReviewIndex, heap, nextArray,
                   builds, dirs, files, execCount>>

\* executeBatch, lines 470-489; the confirm button is rendered in review
\* mode only and is disabled while isProcessing (template 883-885)
executeBatch ==
    /\ reviewMode
    /\ ~isProcessing
    /\ runNo < MaxRuns
    /\ runNo' = runNo + 1
    /\ execCount' = [execCount EXCEPT ![batchQueue] = @ + 1]
    /\ Commit(Advance([Machine EXCEPT
            !.isProcessing = TRUE,
            !.logs = EmptyBag,
            !.progress = [current |-> 0, total |-> 0],
            !.run = [NoRun EXCEPT !.kind = "batch", !.pc = "next_task",
                                  !.no = runNo + 1, !.arr = batchQueue,
                                  !.confirmLen = Len(heap[batchQueue])]]))
    /\ UNCHANGED <<uiVars, batchQueue, activeReviewIndex, heap, nextArray,
                   builds, dirs, files>>

(***************************************************************************)
(* Completions of the IPC calls a run awaits                               *)
(***************************************************************************)
runFrame == <<uiVars, batchQueue, activeReviewIndex, heap, nextArray,
              runNo, builds, files, execCount>>

Entries(path) == IF path \in DOMAIN files THEN files[path] ELSE <<>>

\* a processTask that never creates the output folder
ExistsDone_SkipsMkdir ==
    /\ run.pc = "exists"
    /\ Commit(Advance([Machine EXCEPT !.run.pc = "readDir",
                                      !.run.arg = TaskConfigOf(run).inputFolder]))
    /\ UNCHANGED <<runFrame, dirs>>

\* await exists(taskConfig.outputFolder), line 296
ExistsDone ==
    /\ run.pc = "exists"
    /\ Commit(Advance(
           IF run.arg \in dirs
           THEN [Machine EXCEPT !.run.pc = "readDir",
                                !.run.arg = TaskConfigOf(run).inputFolder]
           ELSE [Machine EXCEPT !.run.pc = "mkdir",
                                !.run.arg = TaskConfigOf(run).outputFolder]))
    /\ UNCHANGED <<runFrame, dirs>>

\* await mkdir(taskConfig.outputFolder, {recursive: true}), line 297
MkdirDone ==
    /\ run.pc = "mkdir"
    /\ IF run.arg \in Uncreatable
       THEN /\ Commit(Advance([Machine EXCEPT !.run.pc = "throw"]))
            /\ UNCHANGED dirs
       ELSE /\ dirs' = dirs \cup {run.arg} \cup Ancestors(run.arg)
            /\ Commit(Advance([Machine EXCEPT !.run.pc = "readDir",
                                   !.run.arg = TaskConfigOf(run).inputFolder]))
    /\ UNCHANGED runFrame

\* a processTask without the test of lines 304-307
ReadDirDone_NoEmptyCheck ==
    /\ run.pc = "readDir"
    /\ Commit(Advance(
           IF run.arg \notin dirs
           THEN [Machine EXCEPT !.run.pc = "throw"]
           ELSE LET found == filesToProcess(Entries(run.arg))
                IN [addLog(Machine, Log("info", "found", run.name, ""))
                      EXCEPT !.progress.total = @ + Len(found),
                             !.run.files = found, !.run.i1 = 0, !.run.i2 = 0,
                             !.run.pc = "loop1"]))
    /\ UNCHANGED <<runFrame, dirs>>

\* await readDir(taskConfig.inputFolder) and lines 301-358
ReadDirDone ==
    /\ run.pc = "readDir"
    /\ Commit(Advance(
           IF run.arg \notin dirs
           THEN [Machine EXCEPT !.run.pc = "throw"]
           ELSE LET found == filesToProcess(Entries(run.arg))
                IN IF Len(found) = 0
                   THEN [addLog(Machine, Log("error", "nofiles", run.name, ""))
                           EXCEPT !.run.pc = "task_end"]
                   ELSE [addLog(Machine, Log("info", "found", run.name, ""))
                           EXCEPT !.progress.total = @ + Len(found),
                                  !.run.files = found, !.run.i1 = 0, !.run.i2 = 0,
                                  !.run.pc = "loop1"]))
    /\ UNCHANGED <<runFrame, dirs>>

\* processFile, lines 329-344: the two joins have answered and the
\* transcoder is invoked
JobJoinDone(k) ==
    /\ jobs[k].stage = "join"
    /\ jobs' = [jobs EXCEPT ![k].stage = "exec"]
    /\ UNCHANGED <<run, logs, progress, isProcessing, reviewMode, runFrame, dirs>>

\* a pool in fixed waves: the second loop goes on only when every
\* invocation it has started has answered
Wake_Waves(s, j) ==
    LET r == s.run
    IN IF ~OfTask(r, j) THEN s
       ELSE IF r.pc = "race1" /\ j.loop = 1 THEN [s EXCEPT !.run.pc = "loop1"]
       ELSE IF r.pc = "race2" /\ j.loop = 2
                 /\ \A k \in JobsOf(s.jobs, r, 2) : s.jobs[k].stage = "done"
            THEN [s EXCEPT !.run.pc = "loop2"]
       ELSE IF r.pc = "all" /\ \A k \in JobsOf(s.jobs, r, 2) : s.jobs[k].stage = "done"
            THEN [s EXCEPT !.run.pc = "git"]
       ELSE s

\* the promises a waiting run is resumed by
Wake(s, j) ==
    LET r == s.run
    IN IF ~OfTask(r, j) THEN s
       ELSE IF r.pc = "race1" /\ j.loop = 1 THEN [s EXCEPT !.run.pc = "loop1"]
       ELSE IF r.pc = "race2" /\ j.loop = 2 THEN [s EXCEPT !.run.pc = "loop2"]
       ELSE IF r.pc = "all" /\ \A k \in JobsOf(s.jobs, r, 2) : s.jobs[k].stage = "done"
            THEN [s EXCEPT !.run.pc = "git"]
       ELSE s

\* a processFile without the catch of line 352: an exception of the
\* transcoder rejects the promise the task waits for
JobExecDone_Uncaught(k) ==
    /\ jobs[k].stage = "exec"
    /\ LET j == jobs[k]
           fname == <<j.entry.stem, j.entry.ext>>
           s1 == [Machine EXCEPT !.jobs = IF OfTask(run, j)
                                          THEN [@ EXCEPT ![k].stage = "done"]
                                          ELSE RemoveAt(@, k)]
       IN Commit(Advance(
              CASE j.entry.ffmpeg = "ok" ->
                     Wake([addLog(s1, Log("success", "ok", j.name, fname))
                             EXCEPT !.progress.current = @ + 1], j)
                [] j.entry.ffmpeg = "fail" ->
                     Wake([addLog(s1, Log("error", "fail", j.name, fname))
                             EXCEPT !.progress.current = @ + 1], j)
                [] OTHER ->
                     IF OfTask(run, j) /\ run.pc \in {"race1", "race2", "all"}
                     THEN [s1 EXCEPT !.run.pc = "throw"] ELSE s1))
    /\ UNCHANGED <<runFrame, dirs>>

\* processFile, lines 344-355: the transcoder has answered
JobExecDone(k) ==
    /\ jobs[k].stage = "exec"
    /\ LET j == jobs[k]
           fname == <<j.entry.stem, j.entry.ext>>
           ev == CASE j.entry.ffmpeg = "ok" -> Log("success", "ok", j.name, fname)
                   [] j.entry.ffmpeg = "fail" -> Log("error", "fail", j.name, fname)
                   [] OTHER -> Log("error", "exc", j.name, fname)
           \* the activation of a task that is over is dropped at once
           s1 == [addLog(Machine, ev) EXCEPT
                     !.progress.current = @ + 1,
                     !.jobs = IF OfTask(run, j) THEN [@ EXCEPT ![k].stage = "done"]
                              ELSE RemoveAt(@, k)]
       IN Commit(Advance(Wake(s1, j)))
    /\ UNCHANGED <<runFrame, dirs>>

\* the folder of the role executeGitOps is called for
RoleFolder(r) ==
    IF r.role = "input" THEN TaskConfigOf(r).inputFolder
    ELSE TaskConfigOf(r).outputFolder

\* a sync that is started whatever the probe answered
ProbeDone_NoCheck ==
    /\ run.pc = "probe"
    /\ Commit(Advance([addLog(Machine, Log("info", "gitstart", run.name, run.role))
                         EXCEPT !.run.pc = "add"]))
    /\ UNCHANGED <<runFrame, dirs>>

\* checkGitRepo of line 392 / 395 has answered; the argument of
\* executeGitOps (line 393 / 396) is read after the answer; lines 115-118
ProbeDone ==
    /\ run.pc = "probe"
    /\ Commit(Advance(
           IF checkGitRepo(run.arg)
           THEN [addLog(Machine, Log("info", "gitstart", run.name, run.role))
                   EXCEPT !.run.pc = "add", !.run.arg = RoleFolder(run)]
           ELSE AfterGit(Machine)))
    /\ UNCHANGED <<runFrame, dirs>>

GitException(s) == AfterGit(addLog(s, Log("error", "gitexc", s.run.name, s.run.role)))

\* a stage command followed by the push, with no commit in between
GitAddDone_SkipsCommit(out) ==
    /\ run.pc = "add"
    /\ Commit(Advance(
           IF out = "throw" THEN GitException(Machine)
           ELSE [Machine EXCEPT !.run.pc = "push"]))
    /\ UNCHANGED <<runFrame, dirs>>

\* git add, line 118: only an exception is looked at
GitAddDone(out) ==
    /\ run.pc = "add"
    /\ Commit(Advance(
           IF out = "throw" THEN GitException(Machine)
           ELSE [Machine EXCEPT !.run.pc = "commit"]))
    /\ UNCHANGED <<runFrame, dirs>>

\* a commit whose "nothing to commit" answer falls through to the push
GitCommitDone_NothingPushes(out) ==
    /\ run.pc = "commit"
    /\ Commit(Advance(
           CASE out = "throw" -> GitException(Machine)
             [] out = "nothing" ->
                  [addLog(Machine, Log("info", "nothing", run.name, run.role))
                     EXCEPT !.run.pc = "push"]
             [] out = "fail" ->
                  [addLog(Machine, Log("error", "commitfail", run.name, run.role))
                     EXCEPT !.run.pc = "push"]
             [] OTHER ->
                  [addLog(Machine, Log("success", "commitok", run.name, run.role))
                     EXCEPT !.run.pc = "push"]))
    /\ UNCHANGED <<runFrame, dirs>>

\* git commit, lines 120-130
GitCommitDone(out) ==
    /\ run.pc = "commit"
    /\ Commit(Advance(
           CASE out = "throw" -> GitException(Machine)
             [] out = "nothing" ->
                  AfterGit(addLog(Machine, Log("info", "nothing", run.name, run.role)))
             [] out = "fail" ->
                  [addLog(Machine, Log("error", "commitfail", run.name, run.role))
                     EXCEPT !.run.pc = "push"]
             [] OTHER ->
                  [addLog(Machine, Log("success", "commitok", run.name, run.role))
                     EXCEPT !.run.pc = "push"]))
    /\ UNCHANGED <<runFrame, dirs>>

\* a push whose failure leaves processTask as an exception
GitPushDone_FailThrows(out) ==
    /\ run.pc = "push"
    /\ Commit(Advance(
           CASE out = "throw" -> GitException(Machine)
             [] out = "fail" ->
                  [addLog(Machine, Log("error", "pushfail", run.name, run.role))
                     EXCEPT !.run.pc = "throw"]
             [] OTHER ->
                  AfterGit(addLog(Machine, Log("success", "pushok", run.name, run.role)))))
    /\ UNCHANGED <<runFrame, dirs>>

\* git push, lines 132-138
GitPushDone(out) ==
    /\ run.pc = "push"
    /\ Commit(Advance(
           CASE out = "throw" -> GitException(Machine)
             [] out = "fail" ->
                  AfterGit(addLog(Machine, Log("error", "pushfail", run.name, run.role)))
             [] OTHER ->
                  AfterGit(addLog(Machine, Log("success", "pushok", run.name, run.role)))))
    /\ UNCHANGED <<runFrame, dirs>>

RunStep ==
    \/ ExistsDone
    \/ MkdirDone
    \/ ReadDirDone
    \/ \E k \in 1..Len(jobs) : JobJoinDone(k)
    \/ \E k \in 1..Len(jobs) : JobExecDone(k)
    \/ ProbeDone
    \/ \E out \in {"ok", "fail", "throw"} : GitAddDone(out)
    \/ \E out \in {"ok", "nothing", "fail", "throw"} : GitCommitDone(out)
    \/ \E out \in {"ok", "fail", "throw"} : GitPushDone(out)

(***************************************************************************)
(* The video converter, src/unnamed/part_000.  Its log lines are left out; *)
(* a file object is known by the number it got when it was created.        *)
(***************************************************************************)
tabFrame == <<config, profiles, configFilePath, isProcessing, logs, progress,
              isGitInput, isGitOutput, enableGitInput, enableGitOutput,
              reviewMode, batchQueue, activeReviewIndex, heap, nextArray,
              run, runNo, jobs, builds, dirs, files, execCount, picks,
              activeProfile, profilesKind, loads, applies, loadNo>>

\* lines 25-29 and 32; hasOutput is config.outputFolder being set
VideoIdle(hasOutput) ==
    [files |-> <<>>, isProcessing |-> FALSE, progress |-> [current |-> 0, total |-> 0],
     i |-> 0, cur |-> 0, pc |-> "idle", runNo |-> 0, nextId |-> 1,
     hasOutput |-> hasOutput]

VideoPaths == {"v", "w"}

\* the write file.status = st of lines 348-356 on the object cur, seen in
\* the list when the object is still an element of it
SetStatus(fs, cur, st) ==
    [k \in 1..Len(fs) |-> IF fs[k].id = cur THEN [fs[k] EXCEPT !.status = st] ELSE fs[k]]

\* lines 258-261 and 361: the head of the loop at index v.i
VideoLoopHead(v) ==
    IF v.i < Len(v.files)
    THEN [v EXCEPT !.files[v.i + 1].status = "processing",
                   !.progress.current = v.i + 1,
                   !.cur = v.files[v.i + 1].id,
                   !.pc = IF v.hasOutput THEN "join1" ELSE "exec"]
    ELSE [v EXCEPT !.isProcessing = FALSE, !.cur = 0, !.pc = "idle"]

\* addFiles, lines 105-129: the dialog has answered with one path
VideoAddFile(path) ==
    /\ video.nextId <= MaxVideoAdds
    /\ \A k \in 1..Len(video.files) : video.files[k].path # path
    /\ video' = [video EXCEPT
                   !.files = Append(@, [id |-> video.nextId, path |-> path,
                                        status |-> "pending"]),
                   !.nextId = @ + 1]
    /\ UNCHANGED <<tabFrame, cropper>>

\* removeFile, lines 239-241; the button is rendered for a pending file
\* (template 440-445)
VideoRemoveFile(idx) ==
    /\ idx \in 1..Len(video.files)
    /\ video.files[idx].status = "pending"
    /\ video' = [video EXCEPT !.files = RemoveAt(@, idx)]
    /\ UNCHANGED <<tabFrame, cropper>>

\* clearFiles, lines 243-246 (template 404)
VideoClearFiles ==
    /\ Len(video.files) > 0
    /\ video' = [video EXCEPT !.files = <<>>]
    /\ UNCHANGED <<tabFrame, cropper>>

\* startProcess, lines 248-261; the button is disabled while isProcessing
\* or without files (template 582)
VideoStartProcess ==
    /\ ~video.isProcessing
    /\ Len(video.files) > 0
    /\ video.runNo < MaxVideoRuns
    /\ video' = VideoLoopHead(
                  [video EXCEPT
                     !.isProcessing = TRUE,
                     !.runNo = @ + 1,
                     !.progress = [current |-> 0, total |-> Len(video.files)],
                     !.files = [k \in 1..Len(video.files) |->
                                  [video.files[k] EXCEPT !.status = "pending"]],
                     !.i = 0])
    /\ UNCHANGED <<tabFrame, cropper>>

\* the joins of lines 281 and 307 have answered
VideoJoinDone ==
    /\ video.pc \in {"join1", "join2"}
    /\ video' = [video EXCEPT !.pc = IF video.pc = "join1" THEN "join2" ELSE "mkdir"]
    /\ UNCHANGED <<tabFrame, cropper>>

\* mkdir of line 314 has answered; an exception goes to the catch of 355
VideoMkdirDone(out) ==
    /\ video.pc = "mkdir"
    /\ video' = IF out = "throw"
                THEN VideoLoopHead([video EXCEPT
                                      !.files = SetStatus(@, video.cur, "error"),
                                      !.i = @ + 1])
                ELSE [video EXCEPT !.pc = "exec"]
    /\ UNCHANGED <<tabFrame, cropper>>

\* a converter that queues a file again when ffmpeg exits non-zero
VideoExecDone_FailRequeues(out) ==
    /\ video.pc = "exec"
    /\ video' = VideoLoopHead([video EXCEPT
                                 !.files = SetStatus(@, video.cur,
                                              CASE out = "ok" -> "done"
                                                [] out = "fail" -> "pending"
                                                [] OTHER -> "error"),
                                 !.i = @ + 1])
    /\ UNCHANGED <<tabFrame, cropper>>

\* command.execute() of line 345 has answered, lines 347-357
VideoExecDone(out) ==
    /\ video.pc = "exec"
    /\ video' = VideoLoopHead([video EXCEPT
                                 !.files = SetStatus(@, video.cur,
                                              IF out = "ok" THEN "done" ELSE "error"),
                                 !.i = @ + 1])
    /\ UNCHANGED <<tabFrame, cropper>>

VideoStep ==
    \/ \E path \in VideoPaths : VideoAddFile(path)
    \/ \E idx \in 1..MaxVideoAdds : VideoRemoveFile(idx)
    \/ VideoClearFiles
    \/ VideoStartProcess
    \/ VideoJoinDone
    \/ \E out \in {"ok", "throw"} : VideoMkdirDone(out)
    \/ \E out \in {"ok", "fail", "throw"} : VideoExecDone(out)

(***************************************************************************)
(* The smart cropper, SmartCropper.vue: the handlers of the collaborator's *)
(* output, lines 154-192                                                   *)
(***************************************************************************)
\* a field of a parsed object: absent, or given with a string value
Absent == [has |-> FALSE, v |-> ""]
Given(v) == [has |-> TRUE, v |-> v]
Truthy(f) == f.has /\ f.v # ""

\* a line of the collaborator: its text, whether the text is blank, and
\* what JSON.parse makes of it: it throws ("none") or yields a value of the
\* given kind; an object has the fields msg and type or lacks them
Line(text, blank, json, msg, type) ==
    [text |-> text, blank |-> blank, json |-> json, msg |-> msg, type |-> type]

Lines ==
    { Line("  ", TRUE, "none", Absent, Absent),
      Line("plain", FALSE, "none", Absent, Absent),
      Line("{msg:m,type:error}", FALSE, "object", Given("m"), Given("error")),
      Line("{msg:m}", FALSE, "object", Given("m"), Absent),
      Line("{type:error}", FALSE, "object", Absent, Given("error")),
      Line("{}", FALSE, "object", Absent, Absent),
      Line("5", FALSE, "number", Absent, Absent),
      Line("null", FALSE, "null", Absent, Absent) }

CropperRunning == [isProcessing |-> TRUE, logs |-> <<>>, lineNo |-> 0]

CropLog(c, msg, type) == [c EXCEPT !.logs = Append(@, [msg |-> msg, type |-> type])]

\* cmd.stdout.on('data'), lines 178-188
CropStdout(line) ==
    /\ cropper.isProcessing
    /\ cropper.lineNo < MaxLines
    /\ LET c == [cropper EXCEPT !.lineNo = @ + 1]
       IN cropper' =
            IF line.json \in {"none", "null"}
            THEN \* JSON.parse or the read of data.msg throws
                 IF ~line.blank THEN CropLog(c, line.text, "info") ELSE c
            ELSE IF line.json = "object" /\ Truthy(line.msg)
            THEN CropLog(c, line.msg.v, IF Truthy(line.type) THEN line.type.v ELSE "info")
            ELSE c
    /\ UNCHANGED <<tabFrame, video>>

\* cmd.stderr.on('data'), lines 190-192
CropStderr(line) ==
    /\ cropper.isProcessing
    /\ cropper.lineNo < MaxLines
    /\ LET c == [cropper EXCEPT !.lineNo = @ + 1]
       IN cropper' = IF ~line.blank THEN CropLog(c, line.text, "error") ELSE c
    /\ UNCHANGED <<tabFrame, video>>

\* cmd.on('close'), lines 154-157, with the git toggles off
CropClose(code) ==
    /\ cropper.isProcessing
    /\ cropper' = CropLog([cropper EXCEPT !.isProcessing = FALSE], "closed",
                          IF code = 0 THEN "success" ELSE "error")
    /\ UNCHANGED <<tabFrame, video>>

CropStep ==
    \/ \E line \in Lines : CropStdout(line)
    \/ \E line \in Lines : CropStderr(line)
    \/ \E code \in {0, 1} : CropClose(code)

\* the other components before anything is done in them
InitTabs ==
    /\ video = VideoIdle(FALSE)
    /\ cropper = [CropperRunning EXCEPT !.isProcessing = FALSE]

(***************************************************************************)
(* Initial states                                                          *)
(***************************************************************************)
ManualDefaults ==
    [inputFolder |-> <<>>, outputFolder |-> <<>>, resizeMethod |-> "fixed",
     width |-> 1920, height |-> 1080, scaleFactor |-> "0.5", format |-> "png",
     fixedMode |-> "crop"]

\* entries the filter of line 302 must drop
Clutter == <<Entry("r", "txt", FALSE, "ok"), Entry("s", "png", TRUE, "ok")>>

InitCommon ==
    /\ isProcessing = FALSE
    /\ logs = EmptyBag
    /\ progress = [current |-> 0, total |-> 0]
    /\ reviewMode = FALSE
    /\ activeReviewIndex = 0
    /\ heap = [a \in 0..MaxArrays |-> <<>>]
    /\ run = NoRun
    /\ jobs = <<>>
    /\ builds = <<>>
    /\ execCount = [a \in 0..MaxArrays |-> 0]
    /\ picks = <<>>
    /\ profilesKind = "object"
    /\ loads = <<>>
    /\ applies = <<>>
    /\ loadNo = 0

\* one manual run over a folder of 0..MaxFiles images: the last run of a
\* session whose earlier runs have ended and left no activation behind
InitPool ==
    /\ InitCommon
    /\ batchQueue = 0
    /\ nextArray = 0
    /\ config = [ManualDefaults EXCEPT !.inputFolder = CfgIn, !.outputFolder = OutDir]
    /\ profiles = <<>>
    /\ configFilePath = <<>>
    /\ isGitInput = checkGitRepo(CfgIn)
    /\ isGitOutput = checkGitRepo(OutDir)
    /\ enableGitInput \in BOOLEAN
    /\ enableGitOutput = FALSE
    /\ dirs \in {{CfgIn}, {CfgIn, OutDir}}
    /\ \E n \in 0..MaxFiles, ff \in {"ok", "fail", "throw"} :
          files = (CfgIn :> (Clutter \o ImageDir(n, ff)))
    /\ runNo = MaxRuns - 1
    /\ activeProfile = ""
    /\ InitTabs

NextPool ==
    \/ startProcess
    \/ RunStep

SpecPool == InitPool /\ [][NextPool]_vars

(***************************************************************************)
(* Profiles.  An optional field is a record [has, v]; has = FALSE is a     *)
(* field the document omits.                                               *)
(***************************************************************************)
Some(v) == [has |-> TRUE, v |-> v]
NoPath == [has |-> FALSE, v |-> <<>>]
NoStr == [has |-> FALSE, v |-> ""]
NoNum == [has |-> FALSE, v |-> 0]
NoBool == [has |-> FALSE, v |-> TRUE]

\* JavaScript truthiness of an optional string, path or number
TruthyStr(f) == f.has /\ f.v # ""
TruthyPath(f) == f.has /\ f.v # <<>>
TruthyNum(f) == f.has /\ f.v # 0

EmptyProfile ==
    [enable |-> NoBool, description |-> NoStr, input_folder |-> NoPath,
     output_folder |-> NoPath, format |-> NoStr, resize_method |-> NoStr,
     width |-> NoNum, height |-> NoNum, scale_factor |-> NoStr,
     fixed_mode |-> NoStr]

Named(name, profile) == [name |-> name, profile |-> profile]

\* property names that are canonical array indices, with their value
KeyIndex(name) ==
    CASE name = "1" -> 1
      [] name = "2" -> 2
      [] name = "0" -> 0
      [] OTHER -> 0 - 1

RECURSIVE SortByIndex(_)
SortByIndex(ns) ==
    IF ns = {} THEN <<>>
    ELSE LET low == CHOOSE n \in ns : \A m \in ns : KeyIndex(n.name) <= KeyIndex(m.name)
         IN <<low>> \o SortByIndex(ns \ {low})

\* Object.entries: integer-like keys first in ascending numeric order, then
\* the other keys in creation order (the order of the parsed document)
ObjectEntries(doc) ==
    LET all == {doc[k] : k \in 1..Len(doc)}
        idx == {n \in all : KeyIndex(n.name) >= 0}
    IN SortByIndex(idx) \o FilterSeq(doc, all \ idx)

\* keys[0] of line 192, the selector's value after a load; "" without keys
FirstKey(doc) == IF doc = <<>> THEN "" ELSE ObjectEntries(doc)[1].name

\* overrides applied to the constructor's settings instead of the current
\* manual settings
Overrides_FromConstructor(cfg, profile) ==
    LET base == [ManualDefaults EXCEPT !.inputFolder = cfg.inputFolder,
                                       !.outputFolder = cfg.outputFolder]
    IN IF TruthyStr(profile.format)
       THEN [base EXCEPT !.format = profile.format.v] ELSE base

\* overrides that take every supplied field, whatever the resize method
Overrides_Ungated(cfg, profile) ==
    [cfg EXCEPT
       !.format = IF TruthyStr(profile.format) THEN profile.format.v ELSE @,
       !.resizeMethod = IF TruthyStr(profile.resize_method)
                           /\ profile.resize_method.v \in {"fixed", "ratio"}
                        THEN profile.resize_method.v ELSE @,
       !.width = IF TruthyNum(profile.width) THEN profile.width.v ELSE @,
       !.height = IF TruthyNum(profile.height) THEN profile.height.v ELSE @,
       !.fixedMode = IF TruthyStr(profile.fixed_mode) THEN profile.fixed_mode.v ELSE @,
       !.scaleFactor = IF TruthyStr(profile.scale_factor)
                       THEN profile.scale_factor.v ELSE @]

\* lines 424-437: the copy of config and the overrides of one profile
Overrides(cfg, profile) ==
    LET c1 == IF TruthyStr(profile.format)
              THEN [cfg EXCEPT !.format = profile.format.v] ELSE cfg
    IN IF ~TruthyStr(profile.resize_method) THEN c1
       ELSE IF profile.resize_method.v = "fixed"
       THEN LET c2 == [c1 EXCEPT !.resizeMethod = "fixed"]
                c3 == IF TruthyNum(profile.width)
                      THEN [c2 EXCEPT !.width = profile.width.v] ELSE c2
                c4 == IF TruthyNum(profile.height)
                      THEN [c3 EXCEPT !.height = profile.height.v] ELSE c3
            IN IF TruthyStr(profile.fixed_mode)
               THEN [c4 EXCEPT !.fixedMode = profile.fixed_mode.v] ELSE c4
       ELSE IF profile.resize_method.v = "ratio"
       THEN LET c2 == [c1 EXCEPT !.resizeMethod = "ratio"]
            IN IF TruthyStr(profile.scale_factor)
               THEN [c2 EXCEPT !.scaleFactor = profile.scale_factor.v] ELSE c2
       ELSE c1

\* resolvePath awaits join only for a path that is not absolute
NeedsJoin(base, relative) == resolvePath(base, relative) # relative

(***************************************************************************)
(* runAllProfiles, lines 415-468.  A build activation b is at entry b.k of *)
(* its snapshot of Object.entries(profiles.value).                         *)
(***************************************************************************)
BuildMachine(b) ==
    [b |-> b, queue |-> batchQueue, heap |-> heap, logs |-> logs,
     reviewMode |-> reviewMode, activeReviewIndex |-> activeReviewIndex]

BuildBlocked == {"join_in", "join_out", "probe_in", "probe_out", "done"}

\* a build that opens the review also when it has built no task
BuildIter_ReviewsEmpty(s) ==
    LET b == s.b
    IN IF b.k > Len(b.entries)
       THEN \* lines 458-463
            [s EXCEPT !.reviewMode = TRUE, !.activeReviewIndex = 0, !.b.pc = "done"]
       ELSE LET profile == b.entries[b.k].profile
            IN IF profile.enable.has /\ profile.enable.v = FALSE
               THEN [s EXCEPT !.b.k = b.k + 1]
               ELSE LET tc == Overrides(config, profile)
                    IN IF ~TruthyPath(profile.input_folder)
                       THEN [s EXCEPT !.b.tc = tc, !.b.pc = "want_out"]
                       ELSE IF NeedsJoin(b.baseDir, profile.input_folder.v)
                       THEN [s EXCEPT !.b.tc = tc, !.b.pc = "join_in"]
                       ELSE [s EXCEPT !.b.tc = [tc EXCEPT !.inputFolder = profile.input_folder.v],
                                      !.b.pc = "want_out"]

\* line 422-426 and 439: next entry of the for-of
BuildIter(s) ==
    LET b == s.b
    IN IF b.k > Len(b.entries)
       THEN \* lines 458-463
            IF Len(s.heap[s.queue]) > 0
            THEN [s EXCEPT !.reviewMode = TRUE, !.activeReviewIndex = 0, !.b.pc = "done"]
            ELSE [s EXCEPT !.logs = @ (+) SetToBag({Log("error", "noprofiles", "", "")}),
                           !.b.pc = "done"]
       ELSE LET profile == b.entries[b.k].profile
            IN IF profile.enable.has /\ profile.enable.v = FALSE
               THEN [s EXCEPT !.b.k = b.k + 1]
               ELSE LET tc == Overrides(config, profile)
                    IN IF ~TruthyPath(profile.input_folder)
                       THEN [s EXCEPT !.b.tc = tc, !.b.pc = "want_out"]
                       ELSE IF NeedsJoin(b.baseDir, profile.input_folder.v)
                       THEN [s EXCEPT !.b.tc = tc, !.b.pc = "join_in"]
                       ELSE [s EXCEPT !.b.tc = [tc EXCEPT !.inputFolder = profile.input_folder.v],
                                      !.b.pc = "want_out"]

\* line 440
BuildWantOut(s) ==
    LET b == s.b
        profile == b.entries[b.k].profile
    IN IF ~TruthyPath(profile.output_folder)
       THEN [s EXCEPT !.b.pc = "probe_in"]
       ELSE IF NeedsJoin(b.baseDir, profile.output_folder.v)
       THEN [s EXCEPT !.b.pc = "join_out"]
       ELSE [s EXCEPT !.b.tc.outputFolder = profile.output_folder.v,
                      !.b.pc = "probe_in"]

BuildStepOf(s) ==
    CASE s.b.pc = "iter" -> BuildIter(s)
      [] s.b.pc = "want_out" -> BuildWantOut(s)

RECURSIVE BuildAdvance(_)
BuildAdvance(s) == IF s.b.pc \in BuildBlocked THEN s ELSE BuildAdvance(BuildStepOf(s))

\* a finished activation is dropped
BuildCommit(k, s) ==
    /\ builds' = IF s.b.pc = "done" THEN RemoveAt(builds, k)
                 ELSE [builds EXCEPT ![k] = s.b]
    /\ heap' = s.heap
    /\ logs' = s.logs
    /\ reviewMode' = s.reviewMode
    /\ activeReviewIndex' = s.activeReviewIndex

buildFrame == <<uiVars, isProcessing, progress, run, runNo, jobs, dirs, files,
                execCount>>

\* the run-all button is rendered in standard mode once profiles are
\* loaded (template 526, 549-552); lines 416-420 and the loop up to its
\* first await
runAllProfilesUpTo(inFlight) ==
    /\ ~reviewMode
    /\ Len(profiles) > 0
    /\ Len(builds) < inFlight
    /\ nextArray < MaxArrays
    /\ nextArray' = nextArray + 1
    /\ batchQueue' = nextArray + 1
    /\ LET b == [entries |-> ObjectEntries(profiles),
                 baseDir |-> getDirname(configFilePath), k |-> 1, pc |-> "iter",
                 tc |-> config, gitIn |-> FALSE]
           \* batchQueue.value is the new array from line 420 on
           s0 == [b |-> b, queue |-> nextArray + 1,
                  heap |-> [heap EXCEPT ![nextArray + 1] = <<>>],
                  logs |-> logs, reviewMode |-> reviewMode,
                  activeReviewIndex |-> activeReviewIndex]
           s1 == BuildAdvance(s0)
       IN /\ builds' = IF s1.b.pc = "done" THEN builds ELSE Append(builds, s1.b)
          /\ heap' = s1.heap
          /\ logs' = s1.logs
          /\ reviewMode' = s1.reviewMode
          /\ activeReviewIndex' = s1.activeReviewIndex
    /\ UNCHANGED buildFrame

\* a click on the run-all button while no other build is in flight
runAllProfiles == runAllProfilesUpTo(MaxBuilds)

\* await resolvePath(baseDir, profile.input_folder) has answered, line 439
BuildJoinInDone(k) ==
    /\ builds[k].pc = "join_in"
    /\ LET b == builds[k]
           path == resolvePath(b.baseDir, b.entries[b.k].profile.input_folder.v)
       IN BuildCommit(k, BuildAdvance(BuildMachine(
              [b EXCEPT !.tc.inputFolder = path, !.pc = "want_out"])))
    /\ UNCHANGED <<buildFrame, batchQueue, nextArray>>

\* await resolvePath(baseDir, profile.output_folder) has answered, line 440
BuildJoinOutDone(k) ==
    /\ builds[k].pc = "join_out"
    /\ LET b == builds[k]
           path == resolvePath(b.baseDir, b.entries[b.k].profile.output_folder.v)
       IN BuildCommit(k, BuildAdvance(BuildMachine(
              [b EXCEPT !.tc.outputFolder = path, !.pc = "probe_in"])))
    /\ UNCHANGED <<buildFrame, batchQueue, nextArray>>

\* checkGitRepo(taskConfig.inputFolder) has answered, line 443
BuildProbeInDone(k) ==
    /\ builds[k].pc = "probe_in"
    /\ LET b == builds[k]
       IN BuildCommit(k, BuildAdvance(BuildMachine(
              [b EXCEPT !.gitIn = checkGitRepo(b.tc.inputFolder), !.pc = "probe_out"])))
    /\ UNCHANGED <<buildFrame, batchQueue, nextArray>>

\* a task that starts with the manual git toggles
BatchTask_ManualToggles(b) ==
    [name |-> b.entries[b.k].name,
     config |-> b.tc,
     description |-> b.entries[b.k].profile.description,
     isGitInput |-> b.gitIn,
     isGitOutput |-> checkGitRepo(b.tc.outputFolder),
     enableGitInput |-> enableGitInput,
     enableGitOutput |-> enableGitOutput]

\* the task pushed by lines 446-454
BatchTask(b) ==
    [name |-> b.entries[b.k].name,
     config |-> b.tc,
     description |-> b.entries[b.k].profile.description,
     isGitInput |-> b.gitIn,
     isGitOutput |-> checkGitRepo(b.tc.outputFolder),
     enableGitInput |-> FALSE,
     enableGitOutput |-> FALSE]

\* the build of a task that also creates the task's output folder
BuildProbeOutDone_Mkdir(k) ==
    /\ builds[k].pc = "probe_out"
    /\ LET b == builds[k]
           s0 == BuildMachine([b EXCEPT !.k = b.k + 1, !.pc = "iter"])
       IN /\ BuildCommit(k, BuildAdvance(
                 [s0 EXCEPT !.heap[batchQueue] = Append(@, BatchTask(b))]))
          /\ dirs' = dirs \cup {b.tc.outputFolder}
    /\ UNCHANGED <<uiVars, isProcessing, progress, run, runNo, jobs, files,
                   execCount, batchQueue, nextArray>>

\* checkGitRepo(taskConfig.outputFolder) has answered, lines 444-456; the
\* push goes to the array batchQueue.value holds now
BuildProbeOutDone(k) ==
    /\ builds[k].pc = "probe_out"
    /\ LET b == builds[k]
           s0 == BuildMachine([b EXCEPT !.k = b.k + 1, !.pc = "iter"])
       IN BuildCommit(k, BuildAdvance(
              [s0 EXCEPT !.heap[batchQueue] = Append(@, BatchTask(b))]))
    /\ UNCHANGED <<buildFrame, batchQueue, nextArray>>

BuildStep ==
    \/ \E k \in 1..Len(builds) : BuildJoinInDone(k)
    \/ \E k \in 1..Len(builds) : BuildJoinOutDone(k)
    \/ \E k \in 1..Len(builds) : BuildProbeInDone(k)
    \/ \E k \in 1..Len(builds) : BuildProbeOutDone(k)

(***************************************************************************)
(* Review pane                                                             *)
(***************************************************************************)
\* a cancel that leaves review mode but keeps the queue
cancelReview_KeepsQueue ==
    /\ reviewMode
    /\ nextArray < MaxArrays
    /\ reviewMode' = FALSE
    /\ UNCHANGED <<uiVars, isProcessing, logs, progress, activeReviewIndex,
                   batchQueue, heap, nextArray,
                   run, runNo, jobs, builds, dirs, files, execCount>>

\* cancelReview, lines 491-494; both cancel buttons are rendered in review
\* mode and are never disabled (template 793, 877-882)
cancelReview ==
    /\ reviewMode
    /\ nextArray < MaxArrays
    /\ reviewMode' = FALSE
    /\ nextArray' = nextArray + 1
    /\ batchQueue' = nextArray + 1
    /\ heap' = [heap EXCEPT ![nextArray + 1] = <<>>]
    /\ UNCHANGED <<uiVars, isProcessing, logs, progress, activeReviewIndex,
                   run, runNo, jobs, builds, dirs, files, execCount>>

\* a tab of the review pane, template 804-807
selectTab(idx) ==
    /\ reviewMode
    /\ idx \in 0..(Len(heap[batchQueue]) - 1)
    /\ activeReviewIndex' = idx
    /\ UNCHANGED <<uiVars, isProcessing, logs, progress, reviewMode, batchQueue,
                   heap, nextArray, run, runNo, jobs, builds, dirs, files,
                   execCount>>

\* the git checkboxes of the shown task, template 829-832 and 843-846
toggleGit(role) ==
    /\ reviewMode
    /\ activeReviewIndex < Len(heap[batchQueue])
    /\ LET task == heap[batchQueue][activeReviewIndex + 1]
       IN IF role = "input"
          THEN /\ task.isGitInput
               /\ heap' = [heap EXCEPT ![batchQueue][activeReviewIndex + 1].enableGitInput = ~@]
          ELSE /\ task.isGitOutput
               /\ heap' = [heap EXCEPT ![batchQueue][activeReviewIndex + 1].enableGitOutput = ~@]
    /\ UNCHANGED <<uiVars, isProcessing, logs, progress, reviewMode, batchQueue,
                   activeReviewIndex, nextArray, run, runNo, jobs, builds, dirs,
                   files, execCount>>

ReviewStep ==
    \/ cancelReview
    \/ \E idx \in 0..2 : selectTab(idx)
    \/ \E role \in {"input", "output"} : toggleGit(role)

(***************************************************************************)
(* The manual form, rendered in standard mode only (template 526)          *)
(***************************************************************************)
formFrame == <<isProcessing, logs, progress, reviewMode, batchQueue,
               activeReviewIndex, heap, nextArray, run, runNo, jobs, builds,
               dirs, files, execCount, profiles, configFilePath,
               activeProfile, profilesKind, loads, applies, loadNo,
          video, cropper>>

\* the text fields of the two folders, template 588-593 and 632-637
typeFolder(target, path) ==
    /\ ~reviewMode
    /\ config' = IF target = "input" THEN [config EXCEPT !.inputFolder = path]
                 ELSE [config EXCEPT !.outputFolder = path]
    /\ config' # config
    /\ UNCHANGED <<formFrame, isGitInput, isGitOutput, enableGitInput,
                   enableGitOutput, picks>>

\* the manual git checkboxes, shown while the detected flag is set
\* (template 603-608 and 647-652)
toggleManualGit(role) ==
    /\ ~reviewMode
    /\ IF role = "input"
       THEN /\ isGitInput
            /\ enableGitInput' = ~enableGitInput
            /\ UNCHANGED enableGitOutput
       ELSE /\ isGitOutput
            /\ enableGitOutput' = ~enableGitOutput
            /\ UNCHANGED enableGitInput
    /\ UNCHANGED <<formFrame, config, isGitInput, isGitOutput, picks>>

\* selectFolder, lines 216-227 and 238-239: the folder dialog has answered
selectFolder(target, path) ==
    /\ ~reviewMode
    /\ Len(picks) < MaxPicks
    /\ config' = IF target = "input" THEN [config EXCEPT !.inputFolder = path]
                 ELSE [config EXCEPT !.outputFolder = path]
    /\ picks' = Append(picks, [target |-> target, path |-> path, pc |-> "probe"])
    /\ UNCHANGED <<formFrame, isGitInput, isGitOutput, enableGitInput,
                   enableGitOutput>>

\* checkGitRepo(path) of line 227 / 239 has answered; lines 229-231.  The
\* picked folders hold no settings.json, so the loadConfigFile of lines
\* 234-235 finds nothing to load.
PickProbeDone(k) ==
    /\ picks[k].pc = "probe"
    /\ LET pk == picks[k]
       IN IF pk.target = "output"
          THEN /\ isGitOutput' = checkGitRepo(pk.path)
               /\ picks' = RemoveAt(picks, k)
               /\ UNCHANGED <<config, isGitInput>>
          ELSE /\ isGitInput' = checkGitRepo(pk.path)
               /\ IF config.outputFolder = <<>>
                  THEN /\ config' = [config EXCEPT !.outputFolder = pk.path \o Processed]
                       /\ picks' = [picks EXCEPT ![k].pc = "probe_out",
                                                 ![k].path = pk.path \o Processed]
                  ELSE /\ picks' = RemoveAt(picks, k)
                       /\ UNCHANGED config
               /\ UNCHANGED isGitOutput
    /\ UNCHANGED <<formFrame, enableGitInput, enableGitOutput>>

\* checkGitRepo(config.outputFolder) of line 231 has answered
PickProbeOutDone(k) ==
    /\ picks[k].pc = "probe_out"
    /\ isGitOutput' = checkGitRepo(picks[k].path)
    /\ picks' = RemoveAt(picks, k)
    /\ UNCHANGED <<formFrame, config, isGitInput, enableGitInput, enableGitOutput>>

\* folders the user picks or types
InputChoices == {InDir, CfgIn}
OutputChoices == {GitOut}

FormStep ==
    \/ \E path \in InputChoices : typeFolder("input", path)
    \/ \E role \in {"input", "output"} : toggleManualGit(role)
    \/ \E path \in InputChoices : selectFolder("input", path)
    \/ \E path \in OutputChoices : selectFolder("output", path)
    \/ \E k \in 1..Len(picks) : PickProbeDone(k)
    \/ \E k \in 1..Len(picks) : PickProbeOutDone(k)

(***************************************************************************)
(* Configuration files: loadConfigFile (180-200), the watcher of           *)
(* activeProfile (496-498) and applyProfile (145-178)                      *)
(***************************************************************************)
\* a parsed value that is not an object (a number): reading a property of
\* it yields undefined
Scalar == [number |-> 5]

IsObjectValue(v) == DOMAIN v = DOMAIN EmptyProfile

\* what the property reads of applyProfile see of a profile value
Fields(v) == IF IsObjectValue(v) THEN v ELSE EmptyProfile

\* the settings files of the disk: a file is missing, holds text that is
\* not JSON, or holds a JSON document
Json(kind, entries) == [text |-> "json", kind |-> kind, entries |-> entries]
NotJson == [text |-> "garbage", kind |-> "none", entries |-> <<>>]
Missing == [text |-> "missing", kind |-> "none", entries |-> <<>>]

MissingFile == <<"/", "c", "/", "m">>
GarbageFile == <<"/", "c", "/", "x">>
NumberFile == <<"/", "c", "/", "r">>
NullFile == <<"/", "c", "/", "C">>
ArrayFile == <<"/", "c", "/", "a">>
ValuesFile == <<"/", "c", "/", "b">>
EmptyFile == <<"/", "c", "/", "g">>

LoadedDoc ==
    <<Named("a", [EmptyProfile EXCEPT !.input_folder = Some(RelIn),
                                      !.output_folder = Some(GitOut),
                                      !.format = Some("webp")]),
      Named("1", [EmptyProfile EXCEPT !.output_folder = Some(RelOut),
                                      !.format = Some("bmp"),
                                      !.resize_method = Some("ratio"),
                                      !.scale_factor = Some("0.25")])>>

ConfigDisk ==
    CfgFile :> Json("object", LoadedDoc)
    @@ MissingFile :> Missing
    @@ GarbageFile :> NotJson
    @@ NumberFile :> Json("number", <<>>)
    @@ NullFile :> Json("null", <<>>)
    @@ ArrayFile :> Json("array", <<Named("0", [EmptyProfile EXCEPT !.format = Some("jpg")])>>)
    @@ ValuesFile :> Json("object", <<Named("b", Scalar)>>)
    @@ EmptyFile :> Json("object", <<>>)

\* profiles.value[profileName], line 146; undefined is <<>>
Lookup(doc, name) ==
    LET hits == {k \in 1..Len(doc) : doc[k].name = name}
    IN IF hits = {} THEN <<>> ELSE <<doc[CHOOSE k \in hits : TRUE].profile>>

\* lines 162-176: format and resize settings of a profile
ApplySettings(cfg, profile) ==
    LET c1 == IF TruthyStr(profile.format) /\ profile.format.v \in {"png", "jpg", "webp"}
              THEN [cfg EXCEPT !.format = profile.format.v] ELSE cfg
    IN IF ~TruthyStr(profile.resize_method) THEN c1
       ELSE IF profile.resize_method.v = "fixed"
       THEN LET c2 == [c1 EXCEPT !.resizeMethod = "fixed"]
                c3 == IF TruthyNum(profile.width)
                      THEN [c2 EXCEPT !.width = profile.width.v] ELSE c2
                c4 == IF TruthyNum(profile.height)
                      THEN [c3 EXCEPT !.height = profile.height.v] ELSE c3
            IN IF TruthyStr(profile.fixed_mode)
               THEN [c4 EXCEPT !.fixedMode = profile.fixed_mode.v] ELSE c4
       ELSE IF profile.resize_method.v = "ratio"
       THEN LET c2 == [c1 EXCEPT !.resizeMethod = "ratio"]
            IN IF TruthyStr(profile.scale_factor)
               THEN [c2 EXCEPT !.scaleFactor = profile.scale_factor.v] ELSE c2
       ELSE c1

\* an activation of applyProfile with the reactive state it writes
ApplyMachine(a) ==
    [a |-> a, config |-> config, isGitInput |-> isGitInput,
     isGitOutput |-> isGitOutput, logs |-> logs]

ApplyBlocked == {"join_in", "probe_in", "join_out", "probe_out", "done"}

\* the code of applyProfile between two awaits of the host
ApplyStepOf(s) ==
    LET a == s.a
        p == a.profile
    IN CASE a.pc = "in" ->
              IF ~(a.hasBase /\ TruthyPath(p.input_folder)) THEN [s EXCEPT !.a.pc = "out"]
              ELSE IF NeedsJoin(a.base, p.input_folder.v) THEN [s EXCEPT !.a.pc = "join_in"]
              ELSE [s EXCEPT !.config.inputFolder = p.input_folder.v,
                             !.a.arg = p.input_folder.v, !.a.pc = "probe_in"]
         [] a.pc = "out" ->
              IF ~(a.hasBase /\ TruthyPath(p.output_folder)) THEN [s EXCEPT !.a.pc = "settings"]
              ELSE IF NeedsJoin(a.base, p.output_folder.v) THEN [s EXCEPT !.a.pc = "join_out"]
              ELSE [s EXCEPT !.config.outputFolder = p.output_folder.v,
                             !.a.arg = p.output_folder.v, !.a.pc = "probe_out"]
         [] a.pc = "settings" ->
              [addLog([s EXCEPT !.config = ApplySettings(s.config, p)],
                      Log("info", "applied", a.name, ""))
               EXCEPT !.a.pc = "done"]

RECURSIVE ApplyAdvance(_)
ApplyAdvance(s) == IF s.a.pc \in ApplyBlocked THEN s ELSE ApplyAdvance(ApplyStepOf(s))

\* lines 145-149: the call of applyProfile(name) in the state m, a record
\* with the fields of ApplyMachine and the fields profiles and configFilePath
applyProfile(m, name) ==
    LET found == Lookup(m.profiles, name)
    IN IF found = <<>> THEN [a |-> [pc |-> "done"], config |-> m.config,
                            isGitInput |-> m.isGitInput,
                            isGitOutput |-> m.isGitOutput, logs |-> m.logs]
       ELSE ApplyAdvance(
              [a |-> [name |-> name, profile |-> Fields(found[1]),
                      hasBase |-> m.configFilePath # <<>>,
                      base |-> getDirname(m.configFilePath),
                      arg |-> <<>>, pc |-> "in"],
               config |-> m.config, isGitInput |-> m.isGitInput,
               isGitOutput |-> m.isGitOutput, logs |-> m.logs])

\* the reactive state after s, with the activation stored at k, appended
\* (k = 0) or dropped when it has returned
ApplyCommit(s, k, rest) ==
    /\ config' = s.config
    /\ isGitInput' = s.isGitInput
    /\ isGitOutput' = s.isGitOutput
    /\ logs' = s.logs
    /\ applies' = IF s.a.pc = "done" THEN (IF k = 0 THEN rest ELSE RemoveAt(rest, k))
                  ELSE IF k = 0 THEN Append(rest, s.a)
                  ELSE [rest EXCEPT ![k] = s.a]

loadFrame == <<isProcessing, progress, reviewMode, batchQueue,
               activeReviewIndex, heap, nextArray, run, runNo, jobs, builds,
               dirs, files, execCount, enableGitInput, enableGitOutput, picks,
               video, cropper>>

\* join(baseDir, profile.input_folder) of line 152 has answered
ApplyJoinInDone(k) ==
    /\ applies[k].pc = "join_in"
    /\ LET a == applies[k]
           path == join(a.base, a.profile.input_folder.v)
       IN ApplyCommit([ApplyMachine(a) EXCEPT !.config.inputFolder = path,
                                              !.a.arg = path, !.a.pc = "probe_in"],
                      k, applies)
    /\ UNCHANGED <<loadFrame, profiles, profilesKind, configFilePath, activeProfile,
                   loads, loadNo>>

\* checkGitRepo(config.inputFolder) of line 153 has answered
ApplyProbeInDone(k) ==
    /\ applies[k].pc = "probe_in"
    /\ LET a == applies[k]
       IN ApplyCommit(ApplyAdvance([ApplyMachine(a) EXCEPT
                                      !.isGitInput = checkGitRepo(a.arg),
                                      !.a.pc = "out"]),
                      k, applies)
    /\ UNCHANGED <<loadFrame, profiles, profilesKind, configFilePath, activeProfile,
                   loads, loadNo>>

\* join(baseDir, profile.output_folder) of line 156 has answered
ApplyJoinOutDone(k) ==
    /\ applies[k].pc = "join_out"
    /\ LET a == applies[k]
           path == join(a.base, a.profile.output_folder.v)
       IN ApplyCommit([ApplyMachine(a) EXCEPT !.config.outputFolder = path,
                                              !.a.arg = path, !.a.pc = "probe_out"],
                      k, applies)
    /\ UNCHANGED <<loadFrame, profiles, profilesKind, configFilePath, activeProfile,
                   loads, loadNo>>

\* checkGitRepo(config.outputFolder) of line 157 has answered
ApplyProbeOutDone(k) ==
    /\ applies[k].pc = "probe_out"
    /\ LET a == applies[k]
       IN ApplyCommit(ApplyAdvance([ApplyMachine(a) EXCEPT
                                      !.isGitOutput = checkGitRepo(a.arg),
                                      !.a.pc = "settings"]),
                      k, applies)
    /\ UNCHANGED <<loadFrame, profiles, profilesKind, configFilePath, activeProfile,
                   loads, loadNo>>

\* the state applyProfile starts from
Reactive ==
    [config |-> config, isGitInput |-> isGitInput, isGitOutput |-> isGitOutput,
     logs |-> logs, profiles |-> profiles, configFilePath |-> configFilePath]

\* the profile selector, template 540-545, with the watcher of 496-498
selectProfile(name) ==
    /\ ~reviewMode
    /\ profilesKind # "null" /\ profiles # <<>>
    /\ \E k \in 1..Len(profiles) : profiles[k].name = name
    /\ name # activeProfile
    /\ loadNo < MaxLoads
    /\ loadNo' = loadNo + 1
    /\ activeProfile' = name
    /\ ApplyCommit(applyProfile(Reactive, name), 0, applies)
    /\ UNCHANGED <<loadFrame, profiles, profilesKind, configFilePath, loads>>

\* selectConfigFile, lines 202-209: the file dialog has answered and
\* loadConfigFile awaits exists(path)
selectConfigFile(path) ==
    /\ ~reviewMode
    /\ loadNo < MaxLoads
    /\ loadNo' = loadNo + 1
    /\ loads' = Append(loads, [path |-> path, pc |-> "exists"])
    /\ UNCHANGED <<loadFrame, config, isGitInput, isGitOutput, logs, profiles,
                   profilesKind, configFilePath, activeProfile, applies>>

\* exists(path) of line 182 has answered
LoadExistsDone(k) ==
    /\ loads[k].pc = "exists"
    /\ loads' = IF ConfigDisk[loads[k].path].text = "missing"
                THEN RemoveAt(loads, k)
                ELSE [loads EXCEPT ![k].pc = "read"]
    /\ UNCHANGED <<loadFrame, loadNo, config, isGitInput, isGitOutput, logs, profiles,
                   profilesKind, configFilePath, activeProfile, applies>>

\* readTextFile of line 183 has answered; lines 184-199 and, when
\* activeProfile changes to a non-empty name, the watcher's applyProfile
LoadReadDone(k) ==
    /\ loads[k].pc = "read"
    /\ loads' = RemoveAt(loads, k)
    /\ LET path == loads[k].path
           data == ConfigDisk[path]
           keys == ObjectEntries(data.entries)
       IN IF data.text = "garbage" \/ data.kind = "number"
          THEN UNCHANGED <<config, isGitInput, isGitOutput, logs, profiles,
                           profilesKind, configFilePath, activeProfile, applies>>
          ELSE /\ profiles' = data.entries
               /\ profilesKind' = data.kind
               /\ configFilePath' = path
               /\ IF data.kind = "null" \/ keys = <<>>
                  THEN UNCHANGED <<config, isGitInput, isGitOutput, logs,
                                   activeProfile, applies>>
                  ELSE LET name == keys[1].name
                           m == [Reactive EXCEPT
                                   !.profiles = data.entries,
                                   !.configFilePath = path,
                                   !.logs = @ (+) SetToBag({Log("success", "loaded", "", "")})]
                       IN /\ activeProfile' = name
                          /\ IF name # activeProfile /\ name # ""
                             THEN ApplyCommit(applyProfile(m, name), 0, applies)
                             ELSE /\ logs' = m.logs
                                  /\ UNCHANGED <<config, isGitInput, isGitOutput, applies>>
    /\ UNCHANGED <<loadFrame, loadNo>>

LoadStep ==
    \/ \E path \in DOMAIN ConfigDisk : selectConfigFile(path)
    \/ \E k \in 1..Len(loads) : LoadExistsDone(k)
    \/ \E k \in 1..Len(loads) : LoadReadDone(k)
    \/ \E name \in {"0", "1", "a", "b"} : selectProfile(name)
    \/ \E k \in 1..Len(applies) : ApplyJoinInDone(k)
    \/ \E k \in 1..Len(applies) : ApplyProbeInDone(k)
    \/ \E k \in 1..Len(applies) : ApplyJoinOutDone(k)
    \/ \E k \in 1..Len(applies) : ApplyProbeOutDone(k)

\* a freshly constructed component (lines 43-56) and a disk of settings files
InitFresh ==
    /\ InitCommon
    /\ batchQueue = 0
    /\ nextArray = 0
    /\ runNo = 0
    /\ config = ManualDefaults
    /\ profiles = <<>>
    /\ configFilePath = <<>>
    /\ isGitInput = FALSE
    /\ isGitOutput = FALSE
    /\ enableGitInput = FALSE
    /\ enableGitOutput = FALSE
    /\ dirs = {InDir, CfgDir, CfgIn, GitOut}
    /\ files = (InDir :> ImageDir(1, "ok") @@ CfgIn :> ImageDir(1, "ok"))
    /\ activeProfile = ""

InitLoad == InitFresh /\ InitTabs

NextLoad == LoadStep

SpecLoad == InitLoad /\ [][NextLoad]_vars

\* the video converter alone, with and without an output folder
InitVideo ==
    /\ InitFresh
    /\ video \in {VideoIdle(hasOutput) : hasOutput \in BOOLEAN}
    /\ cropper = [CropperRunning EXCEPT !.isProcessing = FALSE]

NextVideo == VideoStep

SpecVideo == InitVideo /\ [][NextVideo]_vars

\* the smart cropper alone, its collaborator spawned
InitCrop ==
    /\ InitFresh
    /\ video = VideoIdle(FALSE)
    /\ cropper = CropperRunning

NextCrop == CropStep

SpecCrop == InitCrop /\ [][NextCrop]_vars

(***************************************************************************)
(* Batch specification: a loaded configuration, builds, review, runs       *)
(***************************************************************************)
Good(name, inF, outF) ==
    Named(name, [EmptyProfile EXCEPT !.input_folder = Some(inF),
                                     !.output_folder = Some(outF)])

Disabled(name) == Named(name, [EmptyProfile EXCEPT !.enable = Some(FALSE)])

\* the configuration documents the batch specification loads
ProfileDocs ==
    { <<Good("a", RelIn, RelOut), Disabled("b"), Good("c", InDir, OutDir)>>,
      <<Good("a", MissingDir, OutDir), Good("c", InDir, OutDir)>>,
      <<Good("a", InDir, BlockedOut), Good("c", InDir, OutDir)>>,
      <<Good("b", InDir, OutDir), Good("1", RelIn, OutDir)>>,
      <<Disabled("a"), Disabled("b")>> }

InitBatch ==
    /\ InitCommon
    /\ batchQueue = 0
    /\ nextArray = 0
    /\ runNo = 0
    /\ config = [ManualDefaults EXCEPT !.inputFolder = InDir, !.outputFolder = OutDir]
    /\ profiles \in ProfileDocs
    /\ configFilePath = CfgFile
    /\ isGitInput = checkGitRepo(InDir)
    /\ isGitOutput = checkGitRepo(OutDir)
    /\ enableGitInput = FALSE
    /\ enableGitOutput = FALSE
    /\ dirs = {InDir, CfgDir, CfgIn}
    /\ files = (InDir :> (Clutter \o ImageDir(1, "ok")) @@ CfgIn :> ImageDir(1, "fail"))
    /\ activeProfile = FirstKey(profiles)
    /\ InitTabs

NextBatch ==
    \/ startProcess
    \/ executeBatch
    \/ runAllProfiles
    \/ RunStep
    \/ BuildStep
    \/ ReviewStep

Spec == InitBatch /\ [][NextBatch]_vars

(***************************************************************************)
(* Build specification: the builds of sparse and of full profiles over     *)
(* manual settings that are fresh or were edited by the user               *)
(***************************************************************************)
\* manual settings after the user has picked folders and the ratio method
EditedConfig ==
    [inputFolder |-> CfgIn, outputFolder |-> OutDir, resizeMethod |-> "ratio",
     width |-> 640, height |-> 480, scaleFactor |-> "0.8", format |-> "jpg",
     fixedMode |-> "pad"]

\* config as constructed (lines 43-52) and as edited through the form
ManualConfigs == {ManualDefaults, EditedConfig}

OnlyFormat(name, fmt) == Named(name, [EmptyProfile EXCEPT !.format = Some(fmt)])

SizeOnly(name) ==
    Named(name, [EmptyProfile EXCEPT !.width = Some(800), !.height = Some(600)])

RatioProfile(name) ==
    Named(name, [EmptyProfile EXCEPT !.resize_method = Some("ratio"),
                                     !.scale_factor = Some("0.3"),
                                     !.width = Some(800),
                                     !.input_folder = Some(CfgIn)])

FullProfile(name) ==
    Named(name, [EmptyProfile EXCEPT !.format = Some("webp"),
                                     !.resize_method = Some("fixed"),
                                     !.width = Some(800), !.height = Some(600),
                                     !.fixed_mode = Some("pad"),
                                     !.input_folder = Some(InDir),
                                     !.output_folder = Some(OutDir)])

\* a resize method the form does not know
OtherMethod(name) ==
    Named(name, [EmptyProfile EXCEPT !.resize_method = Some("auto"),
                                     !.width = Some(800),
                                     !.scale_factor = Some("0.3")])

BuildDocs ==
    { <<OnlyFormat("f", "webp"), Good("g", RelIn, RelOut)>>,
      <<SizeOnly("w"), Good("c", CfgIn, OutDir)>>,
      <<RatioProfile("r"), FullProfile("x")>>,
      <<OnlyFormat("e", ""), OtherMethod("u")>> }

InitBuild ==
    /\ InitCommon
    /\ batchQueue = 0
    /\ nextArray = 0
    /\ runNo = 0
    /\ config \in ManualConfigs
    /\ profiles \in BuildDocs
    /\ configFilePath = CfgFile
    /\ isGitInput = checkGitRepo(config.inputFolder)
    /\ isGitOutput = checkGitRepo(config.outputFolder)
    /\ enableGitInput \in BOOLEAN
    /\ enableGitOutput \in BOOLEAN
    /\ dirs = {InDir, CfgDir, CfgIn}
    /\ files = (InDir :> ImageDir(1, "ok") @@ CfgIn :> ImageDir(1, "ok"))
    /\ activeProfile = FirstKey(profiles)
    /\ InitTabs

NextBuild ==
    \/ runAllProfiles
    \/ BuildStep

SpecBuild == InitBuild /\ [][NextBuild]_vars

(***************************************************************************)
(* Overlapping builds: the run-all button stays enabled while a build      *)
(* awaits (template 549-557), so a second click starts a second activation. *)
(* Git is left off in every task, and the session has one run left.         *)
(***************************************************************************)
OverlapDocs ==
    { <<Good("a", RelIn, RelOut), Good("c", InDir, OutDir)>>,
      <<Good("a", InDir, OutDir), Disabled("b"), Good("c", RelIn, OutDir)>>,
      <<Disabled("a"), Good("c", InDir, RelOut)>>,
      <<Disabled("a"), Disabled("b")>> }

InitOverlap ==
    /\ InitCommon
    /\ batchQueue = 0
    /\ nextArray = 0
    \* one run is left in the session
    /\ runNo = MaxRuns - 1
    /\ config = [ManualDefaults EXCEPT !.inputFolder = InDir, !.outputFolder = OutDir]
    /\ profiles \in OverlapDocs
    /\ configFilePath = CfgFile
    /\ isGitInput = checkGitRepo(InDir)
    /\ isGitOutput = checkGitRepo(OutDir)
    /\ enableGitInput = FALSE
    /\ enableGitOutput = FALSE
    /\ dirs = {InDir, CfgDir, CfgIn}
    /\ files = (InDir :> ImageDir(1, "ok") @@ CfgIn :> ImageDir(1, "ok"))
    /\ activeProfile = FirstKey(profiles)
    /\ InitTabs

NextOverlap ==
    \/ runAllProfilesUpTo(MaxOverlap)
    \/ BuildStep
    \/ cancelReview
    \/ \E idx \in 0..2 : selectTab(idx)
    \/ executeBatch
    \* the steps of a run whose tasks have git left off
    \/ ExistsDone
    \/ MkdirDone
    \/ ReadDirDone
    \/ \E k \in 1..Len(jobs) : JobJoinDone(k)
    \/ \E k \in 1..Len(jobs) : JobExecDone(k)

SpecOverlap == InitOverlap /\ [][NextOverlap]_vars

(***************************************************************************)
(* Path resolution: one build over a document whose only profile names an  *)
(* input folder drawn from every short path, and a relative output folder  *)
(***************************************************************************)
PathChars == {"/", "\\", ":", "C", "i"}

Candidates == UNION {[1..n -> PathChars] : n \in 1..MaxPathLen}

InitResolve ==
    /\ InitCommon
    /\ batchQueue = 0
    /\ nextArray = 0
    /\ runNo = 0
    /\ config = [ManualDefaults EXCEPT !.inputFolder = InDir, !.outputFolder = OutDir]
    /\ \E candidate \in Candidates :
          profiles = <<Named("a", [EmptyProfile EXCEPT !.input_folder = Some(candidate),
                                                       !.output_folder = Some(RelOut)])>>
    /\ configFilePath \in {CfgFile, <<"/", "s">>}
    /\ isGitInput = FALSE
    /\ isGitOutput = FALSE
    /\ enableGitInput = FALSE
    /\ enableGitOutput = FALSE
    /\ dirs = {InDir, CfgDir, CfgIn}
    /\ files = (InDir :> ImageDir(1, "ok") @@ CfgIn :> ImageDir(1, "ok"))
    /\ activeProfile = FirstKey(profiles)
    /\ InitTabs

SpecResolve == InitResolve /\ [][NextBuild]_vars

(***************************************************************************)
(* Git specification: one batch run over folders under git, with the       *)
(* review pane in use                                                      *)
(***************************************************************************)
GitDocs ==
    { <<Good("a", RelIn, GitOut), Good("c", InDir, RelOut)>> }

\* the last build and the last run of a session whose earlier batches
\* were cancelled: batchQueue.value is the empty array of the last cancel
InitGit ==
    /\ InitCommon
    /\ batchQueue = MaxArrays - 1
    /\ nextArray = MaxArrays - 1
    /\ runNo = MaxRuns - 1
    /\ config = [ManualDefaults EXCEPT !.inputFolder = CfgIn, !.outputFolder = OutDir]
    /\ profiles \in GitDocs
    /\ configFilePath = CfgFile
    /\ isGitInput = checkGitRepo(CfgIn)
    /\ isGitOutput = checkGitRepo(OutDir)
    /\ enableGitInput = FALSE
    /\ enableGitOutput = FALSE
    /\ dirs = {InDir, CfgDir, CfgIn, GitOut}
    /\ files = (InDir :> ImageDir(1, "ok") @@ CfgIn :> ImageDir(1, "ok"))
    /\ activeProfile = FirstKey(profiles)
    /\ InitTabs

NextGit ==
    \/ runAllProfiles
    \/ BuildStep
    \/ \E idx \in 0..1 : selectTab(idx)
    \/ \E role \in {"input", "output"} : toggleGit(role)
    \/ executeBatch
    \/ RunStep

SpecGit == InitGit /\ [][NextGit]_vars

(***************************************************************************)
(* Form specification: one manual run while the user picks and types       *)
(* folders and sets the manual git toggles                                 *)
(***************************************************************************)
InitForm ==
    /\ InitCommon
    /\ batchQueue = 0
    /\ nextArray = 0
    /\ runNo = MaxRuns - 1
    /\ \E out \in {OutDir, <<>>} :
          /\ config = [ManualDefaults EXCEPT !.inputFolder = CfgIn,
                                             !.outputFolder = out]
          /\ isGitOutput = checkGitRepo(out)
    /\ profiles = <<>>
    /\ configFilePath = <<>>
    /\ isGitInput = checkGitRepo(CfgIn)
    /\ enableGitInput = FALSE
    /\ enableGitOutput = FALSE
    /\ dirs = {InDir, CfgDir, CfgIn, GitOut}
    /\ files = (InDir :> ImageDir(1, "ok") @@ CfgIn :> ImageDir(1, "ok"))
    /\ activeProfile = ""
    /\ InitTabs

NextForm ==
    \/ FormStep
    \/ startProcess
    \/ RunStep

SpecForm == InitForm /\ [][NextForm]_vars

(***************************************************************************)
(* Properties                                                              *)
(***************************************************************************)
JobIds == 1..Len(jobs)

\* transcoder invocations of task (n, t) that were started and have not answered
InFlight(n, t) == {k \in JobIds : jobs[k].run = n /\ jobs[k].task = t /\ jobs[k].stage = "exec"}

GitPcs == {"probe", "add", "commit", "push"}

\* C1: during one processTask run at most CONCURRENCY_LIMIT transcoder
\* invocations of the task are in flight at any instant.
C1_PoolBound == Cardinality(InFlight(run.no, run.idx)) <= CONCURRENCY_LIMIT

\* C2: once the pool loops of a task are over, every eligible file has been
\* submitted to the transcoder exactly once.
C2_EachFileOnce ==
    run.pc = "all" =>
        \A f \in 1..Len(run.files) :
            Cardinality({k \in JobIds : OfTask(run, jobs[k]) /\ jobs[k].file = f}) = 1

\* C3: processTask starts no git command and does not return while a
\* transcoder invocation it started is still in flight.
C3_DrainedBeforeGitAndReturn ==
    run.pc \in GitPcs \cup {"ended"} => InFlight(run.no, run.idx) = {}

\* C4: in executeBatch a task that throws (input folder missing, output
\* folder not creatable) does not keep the tasks after it from being run.
C4_FailedTaskDoesNotStopBatch ==
    (run.kind = "batch" /\ run.pc = "ended") =>
        \A t \in run.threw : \A u \in (t + 1)..run.confirmLen : u \in run.attempted

\* C5: the tasks of a batch run strictly one after another: no transcoder
\* invocation and no git command of a later task starts while a transcoder
\* invocation of an earlier task of the run is in flight.
C5_TasksOneAfterAnother ==
    run.kind = "batch" =>
        \A t \in 1..run.idx :
            InFlight(run.no, t) # {} =>
                /\ \A k \in JobIds :
                      (jobs[k].run = run.no /\ jobs[k].task > t) => jobs[k].stage = "join"
                /\ (run.idx > t => run.pc \notin GitPcs)

\* C6: executeBatch runs over one built batch (one array object) at most once.
C6_BatchRunAtMostOnce == \A a \in DOMAIN execCount : execCount[a] <= 1

\* C7: review gating.  A step of a build (the click on run-all or the
\* answer to one of its joins and probes) creates no folder, starts no
\* transcoder invocation and no run, and touches no progress counter; a
\* batch run starts only from review mode, over the array under review.
C7_ReviewGating ==
    [][ /\ (runAllProfiles \/ BuildStep) =>
              UNCHANGED <<dirs, jobs, run, runNo, execCount, progress, isProcessing>>
        /\ (run'.kind = "batch" /\ run'.no # run.no) =>
              (reviewMode /\ run'.arr = batchQueue /\ execCount' # execCount) ]_vars

\* a finished build under review that no run has touched
C7_Witness ==
    /\ reviewMode
    /\ builds = <<>>
    /\ Len(heap[batchQueue]) = 2
    /\ execCount[batchQueue] = 0
    /\ run.kind = "none"
    /\ jobs = <<>>
    /\ OutDir \notin dirs

\* C8: cancelReview leaves review mode, empties the queue and changes
\* nothing else: no folder, no activation, no log event, no progress
\* counter, no manual setting and no loaded profile.
C8_CancelFrame ==
    [][ cancelReview =>
          /\ ~reviewMode'
          /\ heap'[batchQueue'] = <<>>
          /\ UNCHANGED <<logs, progress, config, profiles, configFilePath,
                         isGitInput, isGitOutput, enableGitInput, enableGitOutput,
                         isProcessing, dirs, files, jobs, run, runNo, builds,
                         execCount, activeReviewIndex>> ]_vars

\* a built batch was discarded before any run
C8_Witness ==
    /\ ~reviewMode
    /\ batchQueue = 2
    /\ Len(heap[1]) > 0
    /\ heap[2] = <<>>
    /\ runNo = 0
    /\ builds = <<>>

\* C9: once confirmed, a batch run attempts every task that was in the
\* queue at confirm time, whatever the user does meanwhile.
C9_ConfirmedBatchCompletes ==
    (run.kind = "batch" /\ run.pc = "ended") => (1..run.confirmLen) \subseteq run.attempted

RECURSIVE NamesOf(_)
NamesOf(seq) == IF seq = <<>> THEN <<>> ELSE <<Head(seq).name>> \o NamesOf(Tail(seq))

EnabledNames ==
    NamesOf(FilterSeq(profiles, {n \in {profiles[k] : k \in 1..Len(profiles)} :
                                    ~(n.profile.enable.has /\ n.profile.enable.v = FALSE)}))

\* C10: a built batch holds exactly one task per profile that is not
\* disabled, in the order of the profiles in the configuration document.
C10_BatchFollowsDocument ==
    (reviewMode /\ builds = <<>> /\ execCount[batchQueue] = 0) =>
        NamesOf(heap[batchQueue]) = EnabledNames

\* the profile a task was built from (profile names are the keys of one
\* object, so they are distinct)
ProfileOf(name) ==
    (CHOOSE n \in {profiles[k] : k \in 1..Len(profiles)} : n.name = name).profile

\* the tasks built so far, with the array and position they are stored at
BuiltAt == {<<a, i>> \in (DOMAIN heap) \X (1..3) : i <= Len(heap[a])}

SuppliesOnlyFormat(p) ==
    /\ p.format.has
    /\ ~p.resize_method.has /\ ~p.width.has /\ ~p.height.has
    /\ ~p.scale_factor.has /\ ~p.fixed_mode.has
    /\ ~p.input_folder.has /\ ~p.output_folder.has

\* C11: sparse-override law.  The task built from a profile that supplies
\* only format has the resize method, width, height, scale factor, fixed
\* mode, input folder and output folder of the manual settings; no field
\* other than format differs, and format is the profile's format.
C11_SparseOverride ==
    \A at \in BuiltAt :
        LET task == heap[at[1]][at[2]]
            p == ProfileOf(task.name)
        IN SuppliesOnlyFormat(p) =>
              /\ task.config = [config EXCEPT !.format = task.config.format]
              /\ (p.format.v # "" => task.config.format = p.format.v)

\* a format-only profile was built over manual settings the user had
\* edited away from the constructor's
C11_Witness ==
    /\ reviewMode
    /\ config = EditedConfig
    /\ \E at \in BuiltAt :
          LET task == heap[at[1]][at[2]]
          IN /\ task.name = "f"
             /\ task.config.format = "webp"
             /\ task.config.resizeMethod = "ratio"
             /\ task.config.inputFolder = CfgIn

\* a field is supplied when the document holds a value for it that is not
\* empty and not zero
Field(has, v, default) == IF has THEN v ELSE default

FolderOf(f, default) ==
    IF TruthyPath(f) THEN resolvePath(getDirname(configFilePath), f.v) ELSE default

\* C12: for every enabled profile and each of format, resize_method, width,
\* height, scale_factor, fixed_mode, input_folder, output_folder, the built
\* task takes the profile's value when the profile supplies the field,
\* whatever other fields it supplies or omits, and the manual default when
\* it does not.
C12_FieldLaw ==
    \A at \in BuiltAt :
        LET tc == heap[at[1]][at[2]].config
            p == ProfileOf(heap[at[1]][at[2]].name)
        IN /\ tc.format = Field(TruthyStr(p.format), p.format.v, config.format)
           /\ tc.resizeMethod = Field(TruthyStr(p.resize_method)
                                         /\ p.resize_method.v \in {"fixed", "ratio"},
                                      p.resize_method.v, config.resizeMethod)
           /\ tc.width = Field(TruthyNum(p.width), p.width.v, config.width)
           /\ tc.height = Field(TruthyNum(p.height), p.height.v, config.height)
           /\ tc.scaleFactor = Field(TruthyStr(p.scale_factor), p.scale_factor.v,
                                     config.scaleFactor)
           /\ tc.fixedMode = Field(TruthyStr(p.fixed_mode), p.fixed_mode.v,
                                   config.fixedMode)
           /\ tc.inputFolder = FolderOf(p.input_folder, config.inputFolder)
           /\ tc.outputFolder = FolderOf(p.output_folder, config.outputFolder)

Method(p) == IF p.resize_method.has THEN p.resize_method.v ELSE ""

\* C12 as amended: format, resize_method (fixed or ratio) and the folders
\* follow the law; width, height and fixed_mode are taken only from a
\* profile whose resize_method is fixed, scale_factor only from one whose
\* resize_method is ratio; every field not taken is the manual default.
C12_GatedFieldLaw ==
    \A at \in BuiltAt :
        LET tc == heap[at[1]][at[2]].config
            p == ProfileOf(heap[at[1]][at[2]].name)
            fixed == Method(p) = "fixed"
            ratio == Method(p) = "ratio"
        IN /\ tc.format = Field(TruthyStr(p.format), p.format.v, config.format)
           /\ tc.resizeMethod = Field(fixed \/ ratio, Method(p), config.resizeMethod)
           /\ tc.width = Field(fixed /\ TruthyNum(p.width), p.width.v, config.width)
           /\ tc.height = Field(fixed /\ TruthyNum(p.height), p.height.v, config.height)
           /\ tc.scaleFactor = Field(ratio /\ TruthyStr(p.scale_factor),
                                     p.scale_factor.v, config.scaleFactor)
           /\ tc.fixedMode = Field(fixed /\ TruthyStr(p.fixed_mode), p.fixed_mode.v,
                                   config.fixedMode)
           /\ tc.inputFolder = FolderOf(p.input_folder, config.inputFolder)
           /\ tc.outputFolder = FolderOf(p.output_folder, config.outputFolder)

\* a ratio profile that also names a width and a full fixed profile were
\* built over the constructor's settings
C12_Witness ==
    /\ reviewMode
    /\ config = ManualDefaults
    /\ Len(heap[batchQueue]) = 2
    /\ LET r == heap[batchQueue][1].config
           x == heap[batchQueue][2].config
       IN /\ heap[batchQueue][1].name = "r"
          /\ r.resizeMethod = "ratio" /\ r.scaleFactor = "0.3" /\ r.width = 1920
          /\ r.inputFolder = CfgIn /\ r.outputFolder = <<>>
          /\ x.resizeMethod = "fixed" /\ x.width = 800 /\ x.fixedMode = "pad"
          /\ x.format = "webp" /\ x.outputFolder = OutDir

\* the test of line 99 for a path that needs no base (drive letters do not
\* occur in the paths of the model)
IsAbsolute(path) == Len(path) > 0 /\ path[1] = "/"

\* C13: every task of a build has absolute input and output folders
\* before any I/O on them starts: when a repository probe of the build is
\* in flight on a folder, and when the task is in the queue, the folder is
\* absolute, also when it is inherited from the manual settings.
C13_AbsoluteBeforeIO ==
    /\ \A k \in 1..Len(builds) :
          /\ builds[k].pc = "probe_in" => IsAbsolute(builds[k].tc.inputFolder)
          /\ builds[k].pc = "probe_out" => IsAbsolute(builds[k].tc.outputFolder)
    /\ \A at \in BuiltAt :
          /\ IsAbsolute(heap[at[1]][at[2]].config.inputFolder)
          /\ IsAbsolute(heap[at[1]][at[2]].config.outputFolder)

\* C14: every task a build produces has both git-sync toggles false,
\* whatever the probes answered and whatever the manual toggles are, and
\* its detected-repository flags are the detector's answers for the task's
\* resolved input and output folders.
C14_BuiltTaskGitFields ==
    \A at \in BuiltAt :
        LET task == heap[at[1]][at[2]]
        IN /\ ~task.enableGitInput
           /\ ~task.enableGitOutput
           /\ task.isGitInput = (task.config.inputFolder \in Repos)
           /\ task.isGitOutput = (task.config.outputFolder \in Repos)

\* a task over a repository was built while both manual toggles were on
C14_Witness ==
    /\ enableGitInput /\ enableGitOutput
    /\ \E at \in BuiltAt :
          LET task == heap[at[1]][at[2]]
          IN /\ task.isGitInput /\ ~task.isGitOutput
             /\ task.config.inputFolder = CfgIn
             /\ ~task.enableGitInput

HasLog(type, msg, task, file) == BagIn(Log(type, msg, task, file), logs)

\* positions at which a stage, commit or push command is in flight
GitCmdPcs == {"add", "commit", "push"}

\* the toggles of the queue's task that run r is at
TogglesOf(r) ==
    [enableInput |-> heap[r.arr][r.idx].enableGitInput,
     enableOutput |-> heap[r.arr][r.idx].enableGitOutput]

\* the toggle that the task of run r has read for the role it syncs
ReadToggle(r) ==
    IF r.kind = "batch"
    THEN IF r.role = "input" THEN r.git.enableInput ELSE r.git.enableOutput
    ELSE IF r.role = "input" THEN r.runGit.input ELSE r.runGit.output

\* C15: a task whose git-sync toggle for a directory is false when the
\* task reads it issues no stage, commit or push command for that
\* directory, also when the directory was detected as a repository.  A
\* batch task reads the toggles of its queue entry when it is started
\* (line 479), a manual task reads the manual toggles when its files are
\* done (lines 389-390); a command is in flight only if the toggle read for
\* its role is true.
C15_ToggleOffNoGit ==
    [][ /\ (run'.kind = "batch" /\ run'.idx >= 1
             /\ <<run'.no, run'.idx>> # <<run.no, run.idx>>) =>
               run'.git = TogglesOf(run')
        /\ (<<run'.no, run'.idx>> = <<run.no, run.idx>>) => run'.git = run.git
        /\ (run'.kind = "manual" /\ run'.no = run.no /\ run'.runGit # run.runGit) =>
               run'.runGit = [input |-> enableGitInput, output |-> enableGitOutput]
        /\ (run'.pc \in GitCmdPcs) => ReadToggle(run') ]_vars

\* a batch run is over whose first task has a repository as input folder
\* with the input toggle off and the output toggle on: the output was
\* synced, the input was not
C15_Witness ==
    /\ run.kind = "batch" /\ run.pc = "ended"
    /\ heap[run.arr][1].isGitInput
    /\ ~heap[run.arr][1].enableGitInput
    /\ HasLog("success", "pushok", "a", "output")
    /\ ~HasLog("info", "gitstart", "a", "input")
    /\ HasLog("info", "found", "a", "")

\* the detected-repository flag shown for the role run r syncs
DetectedFlag(r) ==
    IF r.kind = "batch"
    THEN IF r.role = "input" THEN heap[r.arr][r.idx].isGitInput
         ELSE heap[r.arr][r.idx].isGitOutput
    ELSE IF r.role = "input" THEN isGitInput ELSE isGitOutput

\* C16: for manual and batch runs alike, a stage, commit or push command
\* is issued for a directory only if the git-sync toggle of its role is
\* enabled and the detected flag of that role is true; a directory whose
\* detected flag is false is never synced.
C16_SyncNeedsDetectedFlag ==
    [][ (run'.pc \in GitCmdPcs /\ run'.pc # run.pc) =>
            (ReadToggle(run') /\ DetectedFlag(run')) ]_vars

\* C16 as amended: the commands are issued in the order stage, commit,
\* push, and the stage command only if the toggle the task read for the
\* role is on and the probe the task itself has just made for the role
\* (line 392 / 395) reported a repository; the detected flag is not looked at.
C16_SyncNeedsRunTimeProbe ==
    [][ /\ (run'.pc = "add" /\ run.pc # "add") =>
              (ReadToggle(run') /\ run.pc = "probe" /\ run.arg \in Repos
               /\ run'.role = run.role)
        /\ (run'.pc = "commit" /\ run.pc # "commit") =>
              (run.pc = "add" /\ run'.role = run.role)
        /\ (run'.pc = "push" /\ run.pc # "push") =>
              (run.pc = "commit" /\ run'.role = run.role) ]_vars

\* a manual run stages a folder typed into the form while the detected
\* flag, set by the last pick, is false
C16_Witness ==
    /\ run.kind = "manual" /\ run.pc = "add" /\ run.role = "input"
    /\ run.arg = CfgIn
    /\ enableGitInput
    /\ ~isGitInput
    /\ picks = <<>>

\* log events of executeGitOps for the folder the run syncs
GitEvents(type) ==
    {Log(type, msg, run.name, run.role) :
        msg \in {"gitstart", "nothing", "commitfail", "commitok", "pushok",
                 "pushfail", "gitexc"}}

Added(e) == CopiesIn(e, logs') - CopiesIn(e, logs)

\* a git command of the same sync is in flight after the step
StillSyncing ==
    /\ run'.pc \in GitCmdPcs
    /\ <<run'.no, run'.idx, run'.role>> = <<run.no, run.idx, run.role>>

\* C17: when the commit of executeGitOps reports "nothing to commit", the
\* sync of the directory is logged as success, no error is recorded, and a
\* push is still attempted for the directory.
C17_NothingToCommitStillPushes ==
    [][ GitCommitDone("nothing") =>
          /\ \E e \in GitEvents("success") : Added(e) = 1
          /\ \A e \in GitEvents("error") : Added(e) = 0
          /\ run'.pc = "push" /\ StillSyncing ]_vars

\* C17 as amended: when the commit reports "nothing to commit", one
\* info event saying so is appended, no success and no error event is
\* recorded for the directory, no push is attempted and the sync is over.
C17_NothingToCommitEndsSync ==
    [][ GitCommitDone("nothing") =>
          /\ Added(Log("info", "nothing", run.name, run.role)) = 1
          /\ \A e \in GitEvents("success") \cup GitEvents("error") : Added(e) = 0
          /\ ~StillSyncing ]_vars

\* a batch run is over in which the commit of the first task's input
\* folder had nothing to commit: nothing was pushed there
C17_Witness ==
    /\ run.kind = "batch" /\ run.pc = "ended"
    /\ HasLog("info", "nothing", "a", "input")
    /\ ~HasLog("success", "pushok", "a", "input")
    /\ ~HasLog("error", "pushfail", "a", "input")
    /\ ~HasLog("error", "gitexc", "a", "input")

\* C18: executeGitOps runs stage, commit, push in this order, each awaited
\* before the next is started; a commit that reports "nothing to commit"
\* ends the sync and appends no error event; after every other answer of
\* the commit, success or failure, the push is attempted.
C18_GitOrderAndNoop ==
    [][ /\ (run'.pc = "add" /\ run.pc # "add") => run.pc = "probe"
        /\ (run'.pc = "commit" /\ run.pc # "commit") =>
              (GitAddDone("ok") /\ StillSyncing)
        /\ (run'.pc = "push" /\ run.pc # "push") =>
              ((GitCommitDone("ok") \/ GitCommitDone("fail")) /\ StillSyncing)
        /\ GitAddDone("ok") => (run'.pc = "commit" /\ StillSyncing)
        /\ GitCommitDone("nothing") =>
              /\ \A e \in GitEvents("error") : Added(e) = 0
              /\ ~StillSyncing
        /\ (GitCommitDone("ok") \/ GitCommitDone("fail")) =>
              (run'.pc = "push" /\ StillSyncing) ]_vars

\* a batch run is over in which the input folder of the first task was
\* pushed after a failed commit and its output folder had nothing to commit
C18_Witness ==
    /\ run.kind = "batch" /\ run.pc = "ended"
    /\ HasLog("error", "commitfail", "a", "input")
    /\ HasLog("success", "pushok", "a", "input")
    /\ HasLog("info", "nothing", "a", "output")
    /\ ~HasLog("success", "pushok", "a", "output")
    /\ ~HasLog("error", "pushfail", "a", "output")

\* a push that exits non-zero, or a git command that throws
GitFailure ==
    \/ GitPushDone("fail")
    \/ GitPushDone("throw")
    \/ GitCommitDone("throw")
    \/ GitAddDone("throw")

\* the run goes on behind the task it is at: the next task of the queue
\* is started, or the run is over with its completion event
TaskReturned ==
    IF run.kind = "manual"
    THEN run'.pc = "ended" /\ Added(Log("success", "manualdone", "", "")) = 1
    ELSE IF run.idx < Len(heap[run.arr])
    THEN /\ run'.idx = run.idx + 1
         /\ run'.idx \in run'.attempted
         /\ run'.pc = "exists"
    ELSE run'.pc = "ended" /\ Added(Log("success", "batchdone", "", "")) = 1

\* C19: a failed push or an exception in a git command is logged as an
\* error and fails nothing else: nothing is thrown out of the task, the
\* other directory of the task is still probed for its sync when its
\* toggle was read as on, and the batch goes on with the next task.
C19_GitFailureIsLocal ==
    [][ GitFailure =>
          /\ \E e \in GitEvents("error") : Added(e) = 1
          /\ run'.threw = run.threw
          /\ Added(Log("error", "batcherr", "", "")) = 0
          /\ Added(Log("error", "syserr", "", "")) = 0
          /\ IF run.role = "input" /\ ReadToggle([run EXCEPT !.role = "output"])
             THEN /\ run'.pc = "probe" /\ run'.role = "output"
                  /\ <<run'.no, run'.idx>> = <<run.no, run.idx>>
                  /\ run'.arg = TaskConfigOf(run).outputFolder
             ELSE TaskReturned ]_vars

\* a batch run is over in which the push of the first task's input folder
\* failed and a git command threw in its output folder; the second task
\* was run and the batch completed
C19_Witness ==
    /\ run.kind = "batch" /\ run.pc = "ended"
    /\ HasLog("error", "pushfail", "a", "input")
    /\ HasLog("error", "gitexc", "a", "output")
    /\ HasLog("info", "found", "c", "")
    /\ HasLog("success", "batchdone", "", "")
    /\ run.attempted = {1, 2}

FileName(e) == <<e.stem, e.ext>>

\* no activation of processFile is waiting for an answer
Quiet(js) == \A k \in 1..Len(js) : js[k].stage = "done"

\* C20: when the transcoder exits non-zero or throws for one file, an
\* error event with the diagnosis is appended for that file and nothing
\* leaves processFile: the task throws nothing; and when the run is over
\* and no invocation is pending, every other eligible file of the task
\* was invoked and has its success event.
C20_FileFailureIsLocal ==
    [][ /\ \A k \in 1..Len(jobs) :
              (JobExecDone(k) /\ jobs[k].entry.ffmpeg # "ok") =>
                  /\ Added(Log("error",
                               IF jobs[k].entry.ffmpeg = "fail" THEN "fail" ELSE "exc",
                               jobs[k].name, FileName(jobs[k].entry))) = 1
                  /\ run'.threw = run.threw
                  /\ Added(Log("error", "syserr", "", "")) = 0
        /\ (run'.pc = "ended" /\ Quiet(jobs')) =>
              \A f \in 1..Len(run'.files) :
                  /\ \E k \in 1..Len(jobs') :
                        jobs'[k].file = f /\ jobs'[k].entry = run'.files[f]
                  /\ run'.files[f].ffmpeg = "ok" =>
                        CopiesIn(Log("success", "ok", run'.name,
                                     FileName(run'.files[f])), logs') >= 1 ]_vars

\* a manual run over three images is over with nothing pending: the
\* transcoder threw for the first image and the other two were converted
C20_Witness ==
    /\ run.kind = "manual" /\ run.pc = "ended" /\ Quiet(jobs)
    /\ Len(run.files) = 3
    /\ run.files[1].ffmpeg = "throw"
    /\ HasLog("error", "exc", "Manual", FileName(run.files[1]))
    /\ HasLog("success", "ok", "Manual", FileName(run.files[2]))
    /\ HasLog("success", "ok", "Manual", FileName(run.files[3]))
    /\ HasLog("success", "manualdone", "", "")

\* C21: each eligible file increments progress.current exactly once, on
\* its completion, so when a task with k eligible files is over and nothing
\* is pending, progress.current has grown by k, as progress.total has.
C21_CurrentGrowsByFileCount ==
    (run.kind = "manual" /\ run.pc = "ended" /\ Quiet(jobs)) =>
        /\ progress.total = Len(run.files)
        /\ progress.current = Len(run.files)

\* C22: progress.current and progress.total are set to 0 by the start of
\* a manual run and by the start of a batch run; every other step leaves
\* them or increases them, the step from one task of a batch to the next
\* included.
C22_ProgressResetOnlyAtRunStart ==
    [][ /\ (startProcess \/ executeBatch) => progress' = [current |-> 0, total |-> 0]
        /\ ~(startProcess \/ executeBatch) =>
              /\ progress'.current >= progress.current
              /\ progress'.total >= progress.total ]_vars

\* the second task of a batch has found its files: the total still holds
\* the files of the first task
C22_Witness ==
    /\ run.kind = "batch" /\ run.idx = 2 /\ run.pc \in {"race2", "all"}
    /\ Len(run.files) = 1
    /\ progress.total = 2
    /\ progress.current >= 1


\* C23: whenever loadConfigFile fails (the file is missing, its text is not
\* JSON, or the parsed value is not an object) the stored profile mapping
\* is empty afterwards, even when an earlier load had succeeded.
LoadFails(k) ==
    \/ LoadExistsDone(k) /\ ConfigDisk[loads[k].path].text = "missing"
    \/ LoadReadDone(k) /\ (\/ ConfigDisk[loads[k].path].text = "garbage"
                           \/ ConfigDisk[loads[k].path].kind = "number")

C23_FailedLoadEmptiesProfiles ==
    [][\A k \in 1..Len(loads) :
          LoadFails(k) => profiles' = <<>> /\ profilesKind' = "object"]_vars

\* C24: the stored profile mapping is always an object whose values are
\* objects: null, arrays and objects with non-object values never become
\* profiles.value.
C24_StoredMappingIsObjectOfObjects ==
    /\ profilesKind = "object"
    /\ \A k \in 1..Len(profiles) : IsObjectValue(profiles[k].profile)


\* absolute under the host path syntax: root-rooted, or rooted at a drive
\* letter (a letter, a colon and a separator)
HostAbsolute(path) ==
    \/ Len(path) >= 1 /\ path[1] = "/"
    \/ Len(path) >= 3 /\ path[1] \in Letters /\ path[2] = ":" /\ path[3] \in {"\\", "/"}

\* C25: resolvePath(base, candidate) is candidate itself whenever candidate
\* is absolute under the host path syntax (drive-letter-rooted or
\* root-rooted) and base joined with candidate otherwise; seen at the input
\* folder of the task built from a profile whose input_folder is candidate.
C25_ResolveAbsoluteOrJoin ==
    \A at \in BuiltAt :
        LET candidate == ProfileOf(heap[at[1]][at[2]].name).input_folder.v
            base == getDirname(configFilePath)
        IN heap[at[1]][at[2]].config.inputFolder =
              IF HostAbsolute(candidate) THEN candidate ELSE join(base, candidate)


\* C26: in every processTask run the output folder exists before the first
\* transcoder invocation of the task starts; mkdir is called only when the
\* folder is absent, and a run whose output folder exists already goes on
\* to read its input folder instead of failing.
C26_OutputFolderBeforeTranscode ==
    [][ /\ \A k \in 1..Len(jobs') :
              jobs'[k].stage \in {"exec", "done"} => config'.outputFolder \in dirs'
        /\ MkdirDone => run.arg \notin dirs
        /\ (ExistsDone /\ run.arg \in dirs) => (run'.pc = "readDir" /\ dirs' = dirs)
      ]_vars

C26_Witness ==
    /\ run.kind = "manual"
    /\ \E k \in 1..Len(jobs) : jobs[k].stage = "exec"
    /\ config.outputFolder \in dirs
    /\ HasLog("info", "found", run.name, "")


\* C27: a task whose input folder does not exist is stopped before anything
\* else happens: no folder is created for it, and the step that finds the
\* input folder missing logs an error, starts no transcoder invocation and
\* leaves the progress counters alone.
C27_MissingInputAbortsFirst ==
    [][ /\ dirs' # dirs => TaskConfigOf(run).inputFolder \in dirs
        /\ (ReadDirDone /\ run.arg \notin dirs) =>
              /\ progress' = progress
              /\ Len(jobs') <= Len(jobs)
              /\ \E e \in BagToSet(logs') : e.type = "error" /\ Added(e) > 0
      ]_vars


\* C28: when the input folder holds no eligible file (no entry that is a
\* file with one of the five extensions, in any letter case) the task logs
\* an error and ends: the step logs the error once, starts no transcoder
\* invocation and leaves progress.current and progress.total as they were,
\* and the task never has an invocation afterwards.
NoEligible == run.arg \in dirs /\ filesToProcess(Entries(run.arg)) = <<>>

C28_NoFilesEndsTask ==
    [][ /\ (ReadDirDone /\ NoEligible) =>
              /\ Added(Log("error", "nofiles", run.name, "")) = 1
              /\ progress' = progress
              /\ jobs' = jobs
              /\ run'.pc = "ended"
        /\ BagIn(Log("error", "nofiles", run'.name, ""), logs') =>
              /\ \A k \in 1..Len(jobs') : ~OfTask(run', jobs'[k])
              /\ progress' = [current |-> 0, total |-> 0]
      ]_vars

C28_Witness ==
    /\ run.kind = "manual" /\ run.pc = "ended"
    /\ HasLog("error", "nofiles", run.name, "")
    /\ Entries(config.inputFolder) = Clutter
    /\ progress = [current |-> 0, total |-> 0]


\* C29: whenever a build ends with an empty task list (every profile of the
\* loaded document is disabled; without profiles the run-all button is not
\* rendered and line 416 returns before anything is built), review mode is
\* not entered, the build ends normally, and the error event "no enabled
\* profiles" is appended once.
BuildEnds ==
    \/ runAllProfiles /\ builds' = builds
    \/ BuildStep /\ Len(builds') < Len(builds)

ErrorAdded(task, unit) ==
    \E e \in BagToSet(logs') :
        e.type = "error" /\ e.task = task /\ e.file = unit /\ Added(e) = 1

C30_ExternalFailureLogged ==
    [][ /\ \A k \in 1..Len(jobs) :
              (JobExecDone(k) /\ jobs[k].stage = "exec" /\ jobs[k].entry.ffmpeg \in {"fail", "throw"})
                  => ErrorAdded(jobs[k].name, FileName(jobs[k].entry))
        /\ \A out \in {"fail", "throw"} :
              /\ GitAddDone(out) => ErrorAdded(run.name, run.role)
              /\ GitCommitDone(out) => ErrorAdded(run.name, run.role)
              /\ GitPushDone(out) => ErrorAdded(run.name, run.role)
      ]_vars


\* activations of processFile the second loop has started for the task of
\* run r and that have not finished
Executing(r, js) ==
    {k \in 1..Len(js) : OfTask(r, js[k]) /\ js[k].loop = 2 /\ js[k].stage # "done"}

\* C31: the pool of lines 373-386 is a sliding window.  While files are
\* still to be submitted, the task waits only with CONCURRENCY_LIMIT of
\* its invocations unfinished, and the answer of any one of them submits
\* the next file in the same step, whatever the others are doing.
C31_SlidingWindow ==
    [][ /\ (run'.pc = "race2" /\ run'.i2 < Len(run'.files)) =>
              Cardinality(Executing(run', jobs')) >= CONCURRENCY_LIMIT
        /\ \A k \in 1..Len(jobs) :
              (/\ JobExecDone(k)
               /\ run.pc = "race2" /\ run.i2 < Len(run.files)
               /\ OfTask(run, jobs[k]) /\ jobs[k].loop = 2)
                  => /\ run'.i2 = run.i2 + 1
                     /\ Cardinality(Executing(run', jobs')) = Cardinality(Executing(run, jobs))
      ]_vars

C31_Witness ==
    /\ run.pc = "race2"
    /\ Len(run.files) = 5 /\ run.i2 = 5
    /\ Cardinality(Executing(run, jobs)) = CONCURRENCY_LIMIT
    /\ Cardinality({k \in Executing(run, jobs) : jobs[k].stage = "exec"}) = 3


Rank(status) ==
    CASE status = "pending" -> 0
      [] status = "processing" -> 1
      [] OTHER -> 2

\* every file object of the list that is still in the list after the step
\* has kept its status or moved it forward; done and error are final
StatusForward ==
    \A k \in 1..Len(video.files), h \in 1..Len(video'.files) :
        video.files[k].id = video'.files[h].id =>
            /\ Rank(video'.files[h].status) >= Rank(video.files[k].status)
            /\ Rank(video.files[k].status) = 2 =>
                  video'.files[h].status = video.files[k].status

\* C32: the status of a file of the video converter only moves forward
\* along pending -> processing -> done | error; no operation, starting
\* another run included, sets it back.
C32_StatusNeverGoesBack == [][StatusForward]_vars

\* C32 as the code has it: the status only moves forward in every step
\* but the start of a run, and the start of a run sets every file of the
\* list to pending before it takes the first one into processing.
C32_StatusForwardWithinRun ==
    [][ IF VideoStartProcess
        THEN /\ Len(video'.files) = Len(video.files)
             /\ video'.files[1].status = "processing"
             /\ \A h \in 2..Len(video'.files) : video'.files[h].status = "pending"
        ELSE StatusForward ]_vars

C32_Witness ==
    /\ video.runNo = 2 /\ video.isProcessing
    /\ Len(video.files) = 2
    /\ video.files[1].id = 1 /\ video.files[1].status = "error"
    /\ video.files[2].id = 2 /\ video.files[2].status = "processing"


\* C33: every non-blank line of the collaborator's output that is not an
\* object with a msg field (text that does not parse, or a parsed value
\* without msg such as a number or {}) is appended to the log as it is,
\* with severity info; none of these lines is dropped.
C33_NonConformingLinePassedThrough ==
    [][ \A line \in Lines :
          (CropStdout(line) /\ ~line.blank /\ ~(line.json = "object" /\ line.msg.has))
              => cropper'.logs = Append(cropper.logs, [msg |-> line.text, type |-> "info"])
      ]_vars


\* C34: at most one run is executing at any time.  A run (startProcess or
\* executeBatch) starts only when no other run is between its first and
\* its last statement, and isProcessing is true exactly while a run is.
RunActive == run.pc \notin {"none", "ended"}

C34_OneRunAtATime ==
    [][ /\ (startProcess \/ executeBatch) => ~RunActive
        /\ isProcessing' = (run'.pc \notin {"none", "ended"}) ]_vars

C34_Witness ==
    /\ run.kind = "manual" /\ run.no = 2 /\ RunActive
    /\ reviewMode /\ isProcessing


\* C35: in every reachable state progress.current <= progress.total, and
\* when a run has finished and all its invocations have answered
\* progress.current = progress.total.
C35_CurrentWithinTotal ==
    /\ progress.current <= progress.total
    /\ (run.pc = "ended" /\ Quiet(jobs)) => progress.current = progress.total


\* C36: while the review pane is shown, the batch queue holds a task and
\* activeReviewIndex selects one of its tasks, whatever the order of builds,
\* cancels, confirms and tab clicks.
C36_ReviewIndexValid ==
    reviewMode => /\ Len(heap[batchQueue]) > 0
                  /\ activeReviewIndex \in 0..(Len(heap[batchQueue]) - 1)

\* the second tab is selected while another build is still awaiting and a
\* confirmed batch is running
C36_Witness ==
    /\ reviewMode
    /\ activeReviewIndex = 1
    /\ builds # <<>>
    /\ isProcessing

\* C37: when the clicks on run-all overlap, the queue shown for review once
\* every build has finished holds one task per enabled profile, in the
\* order runAllProfiles lists the profiles.
C37_OverlappingBuildsOneTaskEach ==
    (reviewMode /\ builds = <<>> /\ execCount[batchQueue] = 0) =>
        NamesOf(heap[batchQueue]) = NamesOf(FilterSeq(ObjectEntries(profiles),
            {n \in {profiles[k] : k \in 1..Len(profiles)} :
                ~(n.profile.enable.has /\ n.profile.enable.v = FALSE)}))



\* C38: review mode is left only through cancelReview or through the end of
\* the run that was confirmed over the batch under review; the end of a run
\* over an earlier batch never closes the review of a later batch.
C38_ReviewClosedByOwnRun ==
    [][ (reviewMode /\ ~reviewMode') =>
          \/ cancelReview
          \/ (run.kind = "batch" /\ run.arr = batchQueue /\ run'.pc = "ended") ]_vars



\* the manual settings and the detected-repo flags hold what profile p
\* supplies: its folders resolved against the configuration file, the flags
\* of those folders, and its format and resize settings
Reflects(p) ==
    /\ (configFilePath # <<>> /\ TruthyPath(p.input_folder)) =>
          /\ config.inputFolder = resolvePath(getDirname(configFilePath), p.input_folder.v)
          /\ isGitInput = checkGitRepo(config.inputFolder)
    /\ (configFilePath # <<>> /\ TruthyPath(p.output_folder)) =>
          /\ config.outputFolder = resolvePath(getDirname(configFilePath), p.output_folder.v)
          /\ isGitOutput = checkGitRepo(config.outputFolder)
    /\ config = ApplySettings(config, p)

\* C39: once every application of a profile has finished, the manual
\* settings and the flags reflect the active profile for every field it
\* supplies, also when the profile was switched while an earlier
\* application was awaiting.
C39_LastSelectedProfileWins ==
    (applies = <<>> /\ loads = <<>> /\ Lookup(profiles, activeProfile) # <<>>) =>
        Reflects(Fields(Lookup(profiles, activeProfile)[1]))



\* file.name of a directory entry, with its dot
DottedName(e) == <<e.stem, ".", e.ext>>

\* lines 330-332: the output path of processFile for entry e under the
\* task configuration tc
OutputPath(tc, e) ==
    LET name == DottedName(e)
        nameWithoutExt == SubSeq(name, 1, LastIndexOf(name, ".") - 1)
    IN join(tc.outputFolder, nameWithoutExt \o <<".", tc.format>>)

\* C40: within one task, two transcoder invocations that are in flight at
\* the same time never write to the same output path.
C40_DistinctOutputsInFlight ==
    RunActive =>
        \A k1 \in InFlight(run.no, run.idx), k2 \in InFlight(run.no, run.idx) :
            k1 # k2 => OutputPath(TaskConfigOf(run), jobs[k1].entry)
                           # OutputPath(TaskConfigOf(run), jobs[k2].entry)


====
